---- MODULE Spec2Model ----
(***************************************************************************)
(* US-Messenger: the real-time chat gateway (apps/chat/consumers.py), the  *)
(* Redis presence store (apps/common/utils.py), the message store and its  *)
(* REST operations (apps/chat/views.py, apps/common/mixins.py).            *)
(*                                                                         *)
(* The specifications share the variables; the first four are:             *)
(*   Spec          the WebSocket gateway with rooms, memberships, presence *)
(*   SpecPresence  the presence store alone, with the clock and key expiry *)
(*   SpecRest      the REST operations on messages, with the clock         *)
(*   SpecUpload    REST message creation and the attachment upload         *)
(***************************************************************************)
EXTENDS Integers, Sequences, FiniteSets, TLC

\* ------------------------------------------------------------------ bounds
NumUsers == 2
NumRooms == 2
NumConns == 2
MaxMsgs == 1
MaxTime == 120
TickStep == 20
MaxRestTime == 1800
RestTickStep == 900

\* ------------------------------------------------------- program constants
PRESENCE_TTL == 60
EDIT_WINDOW_MINUTES == 15
CLOSE_NORMAL == 1000
CLOSE_FAULT == 4000
CLOSE_UNAUTHORIZED == 4001
CLOSE_FORBIDDEN == 4003

Users == 1..NumUsers
Rooms == 1..NumRooms
Conns == 1..NumConns

\* scope["user"] of an unauthenticated handshake: AnonymousUser, whose id is None
Anon == 0
\* Python's None for identifiers (reply_to, user_id of AnonymousUser)
NoneId == 0
\* Python's None for a timestamp (Message.edited_at)
NoneTime == -1
NoRow == [role |-> "none", is_active |-> FALSE]
Roles == {"member", "admin", "owner"}

\* Text is a sequence of characters, so that strip() is computed.
Whitespace == {" ", "\t", "\n"}
Contents == {<<>>, <<" ">>, <<"h", "i">>}

VARIABLES
  membership,   \* RoomMembership rows: [Users \X Rooms -> NoRow or [role, is_active]]
  roomActive,   \* ChatRoom.is_active
  msgs,         \* Message rows (a set of records)
  nextMsgId,    \* the BigAutoField sequence of Message
  attachments,  \* Attachment rows
  now,          \* the clock, in seconds
  userKey,      \* Redis presence:user:<id>: 0 (absent) or the time the key expires
  roomSet,      \* Redis presence:room:<id>: the set's members (strings)
  roomExp,      \* Redis presence:room:<id>: 0 (no TTL / absent) or the time it expires
  lastOnline,   \* history: when set_user_online(u) last ran with no
                \* set_user_offline(u) after it (NoneTime: never, or offline since)
  conn,         \* the consumer instances: state, self.user, self.room_id, close code
  groups,       \* the channel layer: group name -> attached connections
  delivered,    \* frames written to each connection's transport by the last step
  published,    \* <<group, event>> pairs handed to group_send by the last step
  persisted,    \* Message rows inserted by the last step
  response,     \* the body of the last step's HTTP response, when it is a list
  inbox,        \* history: the frames each connection has been sent so far
                \* (kept only in the behaviours that start with inbox.on)
  notifications,\* Notification rows (a set of records)
  accounts,     \* User rows: [Users -> [is_online, last_seen]]
  task,         \* handle_message in progress on each connection: the row it
                \* inserted and has not broadcast yet (db_message), or NoTask
  last          \* the last operation and its inputs

vars == <<membership, roomActive, msgs, nextMsgId, attachments, now, userKey,
          roomSet, roomExp, lastOnline, conn, groups, delivered, published,
          persisted, response, inbox, notifications, accounts, task, last>>

storeVars == <<membership, roomActive, msgs, nextMsgId, attachments>>
presenceVars == <<userKey, roomSet, roomExp, lastOnline>>
gatewayVars == <<conn, groups>>
durableVars == <<notifications, accounts>>

\* ------------------------------------------------------------------- text
RECURSIVE LStrip(_)
LStrip(s) == IF s # <<>> /\ Head(s) \in Whitespace THEN LStrip(Tail(s)) ELSE s

RECURSIVE RStrip(_)
RStrip(s) ==
  IF s # <<>> /\ s[Len(s)] \in Whitespace
  THEN RStrip(SubSeq(s, 1, Len(s) - 1))
  ELSE s

\* str.strip()
Strip(s) == RStrip(LStrip(s))

\* redis-py encodes an int member as its decimal string; int() parses it back
ToStr(n) == <<"str", n>>
ParseInt(s) == s[2]

\* User.get_full_name()
Username(u) == <<"name", u>>

\* --------------------------------------------------------- channel groups
\* One notification group for every user
UserChannelGroupShared(user_id) == <<"notifications_", 1>>

get_room_channel_group(room_id) == <<"chat_", room_id>>
get_user_channel_group(user_id) == <<"notifications_", user_id>>

GroupNames ==
  {get_room_channel_group(r) : r \in Rooms} \cup
  {get_user_channel_group(u) : u \in Users}

\* ------------------------------------------------------------ memberships
\* ChatRoom.participants goes through RoomMembership: a participant is a user
\* with a row, active or not.
IsParticipant(u, r) == u \in Users /\ membership[<<u, r>>] # NoRow

HasActiveMembership(u, r) ==
  u \in Users /\ membership[<<u, r>>] # NoRow /\ membership[<<u, r>>].is_active

\* The two conditions evaluated on separate joins of the membership table.
IsRoomMemberSeparateJoins(u, r) ==
  /\ IsParticipant(u, r)
  /\ \E v \in Users : HasActiveMembership(v, r)

\* ChatConsumer.is_room_member: filter(id=room_id, participants=user,
\* memberships__is_active=True).  Both conditions of the one filter() call
\* constrain the same RoomMembership row (the join to the through table is
\* reused within a filter() call).
is_room_member(u, r) == HasActiveMembership(u, r)

\* --------------------------------------------------------- presence store
\* redis EXISTS presence:user:<id>
is_user_online(u) == u \in Users /\ userKey[u] # 0

get_online_users_in_room(r) == {ParseInt(s) : s \in roomSet[r]}

\* set_user_online: SETEX the user key, then SADD and EXPIRE the room key
OnlineUserKey(u) == [userKey EXCEPT ![u] = now + PRESENCE_TTL]
OnlineRoomSet(u, r) ==
  IF r \in Rooms THEN [roomSet EXCEPT ![r] = @ \cup {ToStr(u)}] ELSE roomSet
OnlineRoomExp(u, r) ==
  IF r \in Rooms THEN [roomExp EXCEPT ![r] = now + PRESENCE_TTL] ELSE roomExp

\* set_user_offline that stops after the first room key of the scan
OfflineRoomSetFirstKey(u) ==
  [r \in Rooms |-> IF r = 1 THEN roomSet[r] \ {ToStr(u)} ELSE roomSet[r]]

\* set_user_offline: DEL the user key, SREM from every presence:room:* key
\* (a set that becomes empty is removed with its TTL)
\* set_user_offline that leaves the user's key in place
OfflineUserKeyKept(u) == userKey

\* set_user_offline that keeps the key while another consumer of the user is
\* still running
OfflineUserKeyPerConnection(u) ==
  IF Cardinality({c \in Conns : conn[c].st = "open" /\ conn[c].user = u}) > 1
  THEN userKey
  ELSE [v \in Users |-> IF v = u THEN 0 ELSE userKey[v]]

OfflineUserKey(u) == [v \in Users |-> IF v = u THEN 0 ELSE userKey[v]]
OfflineRoomSet(u) == [r \in Rooms |-> roomSet[r] \ {ToStr(u)}]
OfflineRoomExp(u) ==
  [r \in Rooms |-> IF OfflineRoomSet(u)[r] = {} THEN 0 ELSE roomExp[r]]

\* ---------------------------------------------------------------- frames
\* A consumer that forwards the channel-layer event as it is
EventFrameBare(ev) == [type |-> ev.type, data |-> ev]

\* The consumer's handler for each event type, as the frame it sends
\* (notification_message is NotificationConsumer's, the others ChatConsumer's).
EventFrame(ev) ==
  CASE ev.type = "chat_message" -> [type |-> "message", data |-> ev.message]
    [] ev.type = "chat_attachment" -> [type |-> "attachment", data |-> ev.message]
    [] ev.type = "user_joined" ->
         [type |-> "user_joined",
          data |-> [user_id |-> ev.user_id, username |-> ev.username]]
    [] ev.type = "user_left" ->
         [type |-> "user_left",
          data |-> [user_id |-> ev.user_id, username |-> ev.username]]
    [] ev.type = "user_typing" -> [type |-> "typing", data |-> ev]
    [] ev.type = "notification_message" ->
         [type |-> "notification", data |-> ev.notification]
    [] OTHER -> [type |-> ev.type, data |-> ev]

ErrorFrame(text) == [type |-> "error", message |-> text]
SuccessFrame(text) == [type |-> "success", message |-> text]

NoFrames == [c \in Conns |-> <<>>]

\* No frame history is kept
NoInbox == [on |-> FALSE, log |-> NoFrames]

\* Every step: no list in a response unless the step is a read; the frames the
\* step wrote to the transports are appended to the history where it is kept.
\* Where the history keeps the channels ("chan"), the frames are queued on the
\* receiving consumers' channels, tagged with the connection whose handler
\* published them, and every published event is recorded with the
\* connections attached at publish time.
Observe ==
  /\ response' = <<>>
  /\ inbox' =
       IF ~inbox.on THEN inbox
       ELSE IF "chan" \in DOMAIN inbox
       THEN [inbox EXCEPT
               !.chan = [d \in Conns |->
                  inbox.chan[d] \o
                    [i \in 1..Len(delivered'[d]) |->
                       [from |-> last'.c, frame |-> delivered'[d][i]]]],
               !.sent = inbox.sent \o
                  [i \in 1..Len(published') |->
                     [from |-> last'.c,
                      to |-> groups'[published'[i].group],
                      frame |-> EventFrame(published'[i].event)]]]
       ELSE [inbox EXCEPT
               !.log = [c \in Conns |-> inbox.log[c] \o delivered'[c]]]

\* group_send that ignores the group and reaches every connection
GroupSendAll(g, group, ev) == [c \in Conns |-> <<EventFrame(ev)>>]

\* channel_layer.group_send(group, ev) with the groups as g: every attached
\* connection runs its handler for ev and sends the frame.
GroupSend(g, group, ev) ==
  [c \in Conns |-> IF c \in g[group] THEN <<EventFrame(ev)>> ELSE <<>>]

\* ------------------------------------------------------------------ init
\* User.is_online defaults to False and last_seen to null
NewUser == [is_online |-> FALSE, last_seen |-> NoneTime]

\* Every user is registered and has not been marked online
InitAccounts == [u \in Users |-> NewUser]

\* A set_offline that leaves last_seen as it was
SetOfflineKeepLastSeen(u) == [accounts EXCEPT ![u].is_online = FALSE]

\* User.set_online and User.set_offline: the row after the save
set_online(u) ==
  [accounts EXCEPT ![u].is_online = TRUE, ![u].last_seen = NoneTime]
set_offline(u) ==
  [accounts EXCEPT ![u].is_online = FALSE, ![u].last_seen = now]

\* No handler is between its insert and its broadcast
NoTask == [is_none |-> TRUE]
NoTasks == [c \in Conns |-> NoTask]

NewConn == [st |-> "new", user |-> Anon, room |-> 0, code |-> 0]

\* Room r was created by user r (its owner) with user r+1 as the other
\* participant (who, past NumUsers, is a user that takes no step); nobody
\* else has a row.
InitMembership ==
  [p \in Users \X Rooms |->
     IF p[1] = p[2] THEN [role |-> "owner", is_active |-> TRUE]
     ELSE IF p[1] = p[2] + 1 THEN [role |-> "member", is_active |-> TRUE]
     ELSE NoRow]

InitCommon ==
  /\ roomActive = [r \in Rooms |-> TRUE]
  /\ nextMsgId = 1
  /\ attachments = {}
  /\ now = 0
  /\ notifications = {}
  /\ accounts = InitAccounts
  /\ task = NoTasks
  /\ userKey = [u \in Users |-> 0]
  /\ roomSet = [r \in Rooms |-> {}]
  /\ roomExp = [r \in Rooms |-> 0]
  /\ lastOnline = [u \in Users |-> NoneTime]
  /\ conn = [c \in Conns |-> NewConn]
  /\ groups = [g \in GroupNames |-> {}]
  /\ delivered = NoFrames
  /\ published = <<>>
  /\ persisted = <<>>
  /\ response = <<>>
  /\ inbox = NoInbox
  /\ last = [op |-> "init", c |-> 0, u |-> 0, r |-> 0, m |-> 0, code |-> 0,
             arg |-> <<>>]

Init ==
  /\ membership = InitMembership
  /\ msgs = {}
  /\ InitCommon

\* The record of an operation: its name, connection, user, room, message,
\* outcome (a close code, an HTTP status, or 0 ok / 1 invalid / 2 fault for
\* an envelope) and its input.
OpArg(op, c, u, r, m, code, arg) ==
  [op |-> op, c |-> c, u |-> u, r |-> r, m |-> m, code |-> code, arg |-> arg]

Op(op, c, u, r, m, code) == OpArg(op, c, u, r, m, code, <<>>)

\* --------------------------------------------------------- message store
NoReply == [is_none |-> TRUE]

MsgById(id) == CHOOSE m \in msgs : m.id = id
MsgExists(id) == \E m \in msgs : m.id = id

\* Message.objects.create(...): no full_clean(), so Message.clean never runs
NewMessage(id, r, u, content, mtype, reply) ==
  [id |-> id, room |-> r, sender |-> u, content |-> content,
   message_type |-> mtype, is_edited |-> FALSE, edited_at |-> NoneTime,
   reply_to |-> reply, created_at |-> now]

\* MessageSerializer(message).data (the fields the frames carry)
get_reply_to_content(m) ==
  IF m.reply_to # NoneId /\ MsgExists(m.reply_to)
  THEN [id |-> m.reply_to,
        content |-> MsgById(m.reply_to).content,
        sender |-> Username(MsgById(m.reply_to).sender)]
  ELSE NoReply

serialize_message(m) ==
  [id |-> m.id, room |-> m.room,
   sender |-> [id |-> m.sender, full_name |-> Username(m.sender)],
   content |-> m.content, message_type |-> m.message_type,
   is_edited |-> m.is_edited, edited_at |-> m.edited_at,
   reply_to |-> m.reply_to, reply_to_content |-> get_reply_to_content(m),
   created_at |-> m.created_at]

\* create_message that stores the reply reference as given
CreateMessageKeepReply(id, r, u, content, reply_to) ==
  NewMessage(id, r, u, content, "text", reply_to)

\* ChatConsumer.create_message: the reply target is looked up by id alone and
\* dropped when it does not exist; the sender's membership is not consulted.
create_message(id, r, u, content, reply_to) ==
  NewMessage(id, r, u, content, "text",
             IF reply_to # NoneId /\ MsgExists(reply_to) THEN reply_to ELSE NoneId)

\* ------------------------------------------------------- inbound envelopes
MessageFrames ==
  {[type |-> "message", data |-> [content |-> t, reply_to |-> p]] :
     t \in Contents, p \in 0..MaxMsgs}
  \cup {[type |-> "message", data |-> [reply_to |-> NoneId]]}

AttachmentFrames ==
  {[type |-> "attachment",
    data |-> [filename |-> "a.png", file_url |-> "u", file_type |-> "image",
              file_size |-> 1]],
   [type |-> "attachment", data |-> [filename |-> "a.png"]]}

\* pydantic: MessageData requires content
ValidMessageFrame(f) == "data" \in DOMAIN f /\ "content" \in DOMAIN f.data

\* pydantic: AttachmentData requires filename, file_url, file_type, file_size
ValidAttachmentFrame(f) ==
  /\ "data" \in DOMAIN f
  /\ {"filename", "file_url", "file_type", "file_size"} \subseteq DOMAIN f.data

\* ------------------------------------------------------------ credentials
\* The token query parameter of a handshake: absent, not a valid access token
\* (bad signature, expired), or a valid one carrying user_id (NoneId: no
\* user_id claim; NumUsers + 1: a user whose row is gone)
Tokens ==
  {[kind |-> "absent"], [kind |-> "invalid"]}
  \cup {[kind |-> "jwt", user_id |-> n] : n \in 0..(NumUsers + 1)}

TokenOf(u) == [kind |-> "jwt", user_id |-> u]

\* get_user_from_token that trusts the token's user_id without loading the row
GetUserFromTokenUnchecked(t) == IF t.kind = "jwt" THEN t.user_id ELSE Anon

\* get_user_from_token: InvalidToken, TokenError and User.DoesNotExist, and a
\* payload without user_id, all end in AnonymousUser
get_user_from_token(t) ==
  IF t.kind = "jwt" /\ t.user_id \in Users THEN t.user_id ELSE Anon

\* JWTAuthMiddleware.__call__: scope["user"]
JWTAuthMiddleware(t) ==
  IF t.kind = "absent" THEN Anon ELSE get_user_from_token(t)

\* ------------------------------------------------------ connection gateway
NoOutput ==
  /\ delivered' = NoFrames
  /\ published' = <<>>
  /\ persisted' = <<>>
  /\ response' = <<>>
  /\ inbox' = inbox

\* A reply written to every connection
ReplyAll(c, frame) == [d \in Conns |-> <<frame>>]

\* self.send: a frame for the one connection
Reply(c, frame) == [d \in Conns |-> IF d = c THEN <<frame>> ELSE <<>>]

\* ChatConsumer.connect behind JWTAuthMiddleware
Connect(c, token, r) ==
  LET u == JWTAuthMiddleware(token)
  IN
  /\ conn[c].st = "new"
  /\ persisted' = <<>>
  /\ UNCHANGED <<task, storeVars, now, notifications>>
  /\ accounts' = IF u = Anon THEN accounts ELSE set_online(u)
  /\ IF u = Anon
     THEN /\ conn' = [conn EXCEPT ![c] =
                 [st |-> "rejected", user |-> u, room |-> r,
                  code |-> CLOSE_UNAUTHORIZED]]
          /\ last' = OpArg("connect", c, u, r, 0, CLOSE_UNAUTHORIZED, token)
          /\ delivered' = NoFrames
          /\ published' = <<>>
          /\ UNCHANGED <<groups, presenceVars>>
     ELSE IF ~is_room_member(u, r)
     THEN /\ conn' = [conn EXCEPT ![c] =
                 [st |-> "rejected", user |-> u, room |-> r,
                  code |-> CLOSE_FORBIDDEN]]
          /\ last' = OpArg("connect", c, u, r, 0, CLOSE_FORBIDDEN, token)
          /\ delivered' = NoFrames
          /\ published' = <<>>
          /\ UNCHANGED <<groups, presenceVars>>
     ELSE LET g == get_room_channel_group(r)
              ev == [type |-> "user_joined", user_id |-> u,
                     username |-> Username(u)]
          IN /\ groups' = [groups EXCEPT ![g] = @ \cup {c}]
             /\ conn' = [conn EXCEPT ![c] =
                    [st |-> "open", user |-> u, room |-> r, code |-> 0]]
             /\ userKey' = OnlineUserKey(u)
             /\ roomSet' = OnlineRoomSet(u, r)
             /\ roomExp' = OnlineRoomExp(u, r)
             /\ lastOnline' = [lastOnline EXCEPT ![u] = now]
             /\ published' = <<[group |-> g, event |-> ev]>>
             /\ delivered' = GroupSend(groups', g, ev)
             /\ last' = OpArg("connect", c, u, r, 0, 0, token)
  /\ Observe

\* The steps of ChatConsumer.connect that can raise once the user is known:
\* the membership query, group_add, accept, the SETEX and the SADD of
\* set_user_online, and the group_send of user_joined
FaultSteps ==
  {"is_room_member", "group_add", "accept", "setex", "sadd", "group_send"}

\* ChatConsumer.connect when the named step raises: what ran before it stays
\* done, and the except clause closes with 4000
ConnectFault(c, token, r, step) ==
  LET u == JWTAuthMiddleware(token)
      g == get_room_channel_group(r)
      attached == step \notin {"is_room_member", "group_add"}
      accepted == attached /\ step # "accept"
      keyed == step \in {"sadd", "group_send"}
  IN
  /\ conn[c].st = "new"
  /\ u # Anon
  /\ step # "is_room_member" => is_room_member(u, r)
  /\ groups' = IF attached THEN [groups EXCEPT ![g] = @ \cup {c}] ELSE groups
  /\ conn' = [conn EXCEPT ![c] =
         [st |-> IF accepted THEN "closing" ELSE "rejected",
          user |-> u, room |-> r, code |-> CLOSE_FAULT]]
  /\ userKey' = IF keyed THEN OnlineUserKey(u) ELSE userKey
  /\ roomSet' = IF step = "group_send" THEN OnlineRoomSet(u, r) ELSE roomSet
  /\ roomExp' = IF step = "group_send" THEN OnlineRoomExp(u, r) ELSE roomExp
  /\ lastOnline' = IF keyed THEN [lastOnline EXCEPT ![u] = now]
                   ELSE lastOnline
  /\ published' = <<>>
  /\ delivered' = NoFrames
  /\ persisted' = <<>>
  /\ last' = OpArg("connect_fault", c, u, r, 0, CLOSE_FAULT, step)
  /\ UNCHANGED <<task, storeVars, now, notifications>>
  /\ accounts' = set_online(u)
  /\ Observe

\* A group_discard that only detaches consumers whose handshake completed
\* without a fault
GroupDiscardOpenOnly(g, group, c) ==
  IF conn[c].st = "open" THEN [g EXCEPT ![group] = @ \ {c}] ELSE g

\* channel_layer.group_discard
GroupDiscard(g, group, c) == [g EXCEPT ![group] = @ \ {c}]

\* ChatConsumer.disconnect, run when the socket closes: after a close() of the
\* server's (a refusal, a leave) or when the client goes away.
Disconnect(c) ==
  /\ conn[c].st \in {"open", "rejected", "closing"}
  /\ LET u == conn[c].user
         g == get_room_channel_group(conn[c].room)
         ev == [type |-> "user_left", user_id |-> u, username |-> Username(u)]
         left == GroupDiscard(groups, g, c)
     IN /\ groups' = left
        /\ IF u = Anon
           THEN \* AnonymousUser has no get_full_name: the handler's except
                \* clause ends it before group_send and set_user_offline
                /\ published' = <<>>
                /\ delivered' = NoFrames
                /\ UNCHANGED presenceVars
           ELSE /\ published' = <<[group |-> g, event |-> ev]>>
                /\ delivered' = GroupSend(left, g, ev)
                /\ userKey' = OfflineUserKey(u)
                /\ roomSet' = OfflineRoomSet(u)
                /\ roomExp' = OfflineRoomExp(u)
                /\ lastOnline' = [lastOnline EXCEPT ![u] = NoneTime]
        /\ last' = Op("disconnect", c, u, conn[c].room, 0, conn[c].code)
  /\ conn' = [conn EXCEPT ![c].st = "closed"]
  /\ persisted' = <<>>
  /\ UNCHANGED <<task, storeVars, now, durableVars>>
  /\ Observe

\* ChatConsumer.handle_join
HandleJoin(c) ==
  /\ conn[c].st = "open"
  /\ delivered' = Reply(c, SuccessFrame("Joined room"))
  /\ published' = <<>>
  /\ persisted' = <<>>
  /\ last' = Op("join", c, conn[c].user, conn[c].room, 0, 0)
  /\ UNCHANGED <<task, storeVars, now, durableVars, presenceVars, gatewayVars>>
  /\ Observe

\* handle_leave that announces the departure itself, ahead of disconnect
HandleLeavePublishing(c) ==
  /\ conn[c].st \in {"open", "closing"}
  /\ LET g == get_room_channel_group(conn[c].room)
         ev == [type |-> "user_left", user_id |-> conn[c].user,
                username |-> Username(conn[c].user)]
     IN /\ published' = <<[group |-> g, event |-> ev]>>
        /\ delivered' = GroupSend(groups, g, ev)
  /\ conn' = [conn EXCEPT ![c].st = "closing", ![c].code = CLOSE_NORMAL]
  /\ persisted' = <<>>
  /\ last' = Op("leave", c, conn[c].user, conn[c].room, 0, CLOSE_NORMAL)
  /\ UNCHANGED <<task, storeVars, now, durableVars, presenceVars, groups>>
  /\ Observe

\* ChatConsumer.handle_leave: send_success, then close(1000).  The consumer
\* runs until the socket's disconnect arrives, so a second 'leave' frame that
\* was already queued is handled the same way; by then the transport has sent
\* its close frame and writes nothing more.
HandleLeave(c) ==
  /\ conn[c].st \in {"open", "closing"}
  /\ delivered' = IF conn[c].st = "open"
                  THEN Reply(c, SuccessFrame("Leaving room"))
                  ELSE NoFrames
  /\ conn' = [conn EXCEPT ![c].st = "closing", ![c].code = CLOSE_NORMAL]
  /\ published' = <<>>
  /\ persisted' = <<>>
  /\ last' = Op("leave", c, conn[c].user, conn[c].room, 0, CLOSE_NORMAL)
  /\ UNCHANGED <<task, storeVars, now, durableVars, presenceVars, groups>>
  /\ Observe

\* handle_message that broadcasts the record before it is saved
HandleMessageBroadcastFirst(c, f, dbFault) ==
  /\ conn[c].st = "open"
  /\ nextMsgId <= MaxMsgs
  /\ ValidMessageFrame(f)
  /\ LET u == conn[c].user
         r == conn[c].room
         g == get_room_channel_group(r)
         m == create_message(nextMsgId, r, u, f.data.content, f.data.reply_to)
         ev == [type |-> "chat_message", message |-> serialize_message(m)]
     IN /\ published' = <<[group |-> g, event |-> ev]>>
        /\ IF dbFault
           THEN /\ delivered' =
                     [d \in Conns |->
                        GroupSend(groups, g, ev)[d] \o
                        Reply(c, ErrorFrame("Failed to send message"))[d]]
                /\ persisted' = <<>>
                /\ last' = OpArg("message", c, u, r, 0, 2, f)
                /\ UNCHANGED <<msgs, nextMsgId>>
           ELSE /\ delivered' = GroupSend(groups, g, ev)
                /\ msgs' = msgs \cup {m}
                /\ nextMsgId' = nextMsgId + 1
                /\ persisted' = <<m>>
                /\ last' = OpArg("message", c, u, r, m.id, 0, f)
  /\ UNCHANGED <<task, membership, roomActive, attachments, now, durableVars, presenceVars,
                 gatewayVars>>
  /\ Observe

\* ChatConsumer.handle_message; dbFault: the insert raises
HandleMessage(c, f, dbFault) ==
  /\ conn[c].st = "open"
  /\ nextMsgId <= MaxMsgs
  /\ LET u == conn[c].user
         r == conn[c].room
         g == get_room_channel_group(r)
     IN IF ~ValidMessageFrame(f)
        THEN /\ delivered' = Reply(c, ErrorFrame("Invalid message"))
             /\ published' = <<>>
             /\ persisted' = <<>>
             /\ last' = OpArg("message", c, u, r, 0, 1, f)
             /\ UNCHANGED <<msgs, nextMsgId>>
        ELSE IF dbFault
        THEN /\ delivered' = Reply(c, ErrorFrame("Failed to send message"))
             /\ published' = <<>>
             /\ persisted' = <<>>
             /\ last' = OpArg("message", c, u, r, 0, 2, f)
             /\ UNCHANGED <<msgs, nextMsgId>>
        ELSE LET m == create_message(nextMsgId, r, u, f.data.content,
                                     f.data.reply_to)
                 ev == [type |-> "chat_message",
                        message |-> serialize_message(m)]
             IN /\ msgs' = msgs \cup {m}
                /\ nextMsgId' = nextMsgId + 1
                /\ persisted' = <<m>>
                /\ published' = <<[group |-> g, event |-> ev]>>
                /\ delivered' = GroupSend(groups, g, ev)
                /\ last' = OpArg("message", c, u, r, m.id, 0, f)
  /\ UNCHANGED <<task, membership, roomActive, attachments, now, durableVars, presenceVars,
                 gatewayVars>>
  /\ Observe

\* ChatConsumer.handle_attachment with create_attachment_message: the message
\* row is inserted, then attachment_data["filename"] subscripts a pydantic
\* model, which raises; the handler's except clause answers with an error.
HandleAttachment(c, f) ==
  /\ conn[c].st = "open"
  /\ nextMsgId <= MaxMsgs
  /\ LET u == conn[c].user
         r == conn[c].room
     IN IF ~ValidAttachmentFrame(f)
        THEN /\ delivered' = Reply(c, ErrorFrame("Invalid attachment message"))
             /\ persisted' = <<>>
             /\ last' = OpArg("attachment", c, u, r, 0, 1, f)
             /\ UNCHANGED <<msgs, nextMsgId>>
        ELSE LET m == NewMessage(nextMsgId, r, u, <<>>, "attachment", NoneId)
             IN /\ msgs' = msgs \cup {m}
                /\ nextMsgId' = nextMsgId + 1
                /\ persisted' = <<m>>
                /\ delivered' = Reply(c, ErrorFrame("Failed to send attachment"))
                /\ last' = OpArg("attachment", c, u, r, m.id, 2, f)
  /\ published' = <<>>
  /\ UNCHANGED <<task, membership, roomActive, attachments, now, durableVars, presenceVars,
                 gatewayVars>>
  /\ Observe

\* 'typing' envelopes: data with is_typing, no data (TypingMessage.data
\* defaults to {}), or data that is not an object ("raw")
TypingFrames ==
  {[type |-> "typing", data |-> [is_typing |-> b]] : b \in BOOLEAN}
  \cup {[type |-> "typing"], [type |-> "typing", raw |-> "x"]}

\* pydantic: TypingMessage.data is a Dict
ValidTypingFrame(f) == "raw" \notin DOMAIN f

\* A typing flag that ignores the envelope
IsTypingAlways(f) == TRUE

\* message.data.get("is_typing", True)
IsTyping(f) ==
  IF "data" \in DOMAIN f /\ "is_typing" \in DOMAIN f.data
  THEN f.data.is_typing ELSE TRUE

\* ChatConsumer.handle_typing
HandleTyping(c, f) ==
  /\ conn[c].st = "open"
  /\ LET u == conn[c].user
         g == get_room_channel_group(conn[c].room)
         ev == [type |-> "user_typing", user_id |-> u,
                username |-> Username(u), is_typing |-> IsTyping(f)]
     IN IF ValidTypingFrame(f)
        THEN /\ published' = <<[group |-> g, event |-> ev]>>
             /\ delivered' = GroupSend(groups, g, ev)
             /\ last' = OpArg("typing", c, u, conn[c].room, 0, 0, f)
        ELSE /\ published' = <<>>
             /\ delivered' = Reply(c, ErrorFrame("Invalid typing message"))
             /\ last' = OpArg("typing", c, u, conn[c].room, 0, 1, f)
  /\ persisted' = <<>>
  /\ UNCHANGED <<task, storeVars, now, durableVars, presenceVars, gatewayVars>>
  /\ Observe

\* ChatConsumer.receive on a text frame that is not JSON ("badjson"), is JSON
\* but not an object, so that data.get raises ("notobject"), has no type
\* ("notype"), or has a type outside the handler table ("unknown")
InvalidKinds == {"badjson", "notobject", "notype", "unknown"}

ReceiveInvalid(c, kind) ==
  /\ conn[c].st = "open"
  /\ delivered' =
       Reply(c, ErrorFrame(CASE kind = "badjson" -> "Invalid JSON"
                             [] kind = "notobject" -> "Internal server error"
                             [] kind = "notype" -> "Message type is required"
                             [] OTHER -> "Unknown message type"))
  /\ published' = <<>>
  /\ persisted' = <<>>
  /\ last' = OpArg("invalid", c, conn[c].user, conn[c].room, 0, 1, kind)
  /\ UNCHANGED <<task, storeVars, now, durableVars, presenceVars, gatewayVars>>
  /\ Observe

\* ------------------------------------------------------- room membership
\* ChatRoomViewSet.get_queryset: active rooms the user participates in
RoomVisible(u, r) == roomActive[r] /\ IsParticipant(u, r)

\* ChatRoomViewSet.leave
Leave(u, r) ==
  /\ IF RoomVisible(u, r) /\ HasActiveMembership(u, r)
     THEN /\ membership' = [membership EXCEPT ![<<u, r>>].is_active = FALSE]
          /\ last' = Op("room_leave", 0, u, r, 0, 200)
     ELSE /\ UNCHANGED membership
          /\ last' = Op("room_leave", 0, u, r, 0, 404)
  /\ NoOutput
  /\ UNCHANGED <<task, roomActive, msgs, nextMsgId, attachments, now, durableVars, presenceVars,
                 gatewayVars>>

\* A join that makes the joining user the room's owner
RejoinedAsOwner(row) == [role |-> "owner", is_active |-> TRUE]

\* join on an existing row: is_active is set, the role stays
Rejoined(row) == [row EXCEPT !.is_active = TRUE]

\* ChatRoomViewSet.join: get_object() finds the room only for a participant,
\* so join re-activates a membership and never creates one
Join(u, r) ==
  /\ IF RoomVisible(u, r)
     THEN /\ membership' = [membership EXCEPT ![<<u, r>>] = Rejoined(@)]
          /\ last' = OpArg("room_join", 0, u, r, 0, 200,
                           [reactivated |-> ~membership[<<u, r>>].is_active])
     ELSE /\ UNCHANGED membership
          /\ last' = Op("room_join", 0, u, r, 0, 404)
  /\ NoOutput
  /\ UNCHANGED <<task, roomActive, msgs, nextMsgId, attachments, now, durableVars, presenceVars,
                 gatewayVars>>

Next ==
  \/ \E c \in Conns, t \in Tokens, r \in Rooms : Connect(c, t, r)
  \/ \E c \in Conns : Disconnect(c)
  \/ \E c \in Conns : HandleJoin(c)
  \/ \E c \in Conns : HandleLeave(c)
  \/ \E c \in Conns, f \in MessageFrames, dbFault \in BOOLEAN :
       HandleMessage(c, f, dbFault)
  \/ \E c \in Conns, f \in AttachmentFrames : HandleAttachment(c, f)
  \/ \E c \in Conns, f \in TypingFrames : HandleTyping(c, f)
  \/ \E c \in Conns, k \in InvalidKinds : ReceiveInvalid(c, k)
  \/ \E u \in Users, r \in Rooms : Leave(u, r)
  \/ \E u \in Users, r \in Rooms : Join(u, r)

Spec == Init /\ [][Next]_vars

\* ===================================================== gateway properties
Attached(c) == \E g \in GroupNames : c \in groups[g]

\* C1: a connection attempt to room r by an authenticated user with no active
\* membership in r (no row, or a row deactivated by leave while others stay
\* active) is closed with 4003, is not accepted and is not attached to r's
\* channel; a connection closed with 4003 is never open nor attached.
C1_NonMemberRefused ==
  /\ (last.op = "connect" /\ last.u # Anon
        /\ ~HasActiveMembership(last.u, last.r))
       => /\ last.code = CLOSE_FORBIDDEN
          /\ conn[last.c].st = "rejected"
          /\ conn[last.c].code = CLOSE_FORBIDDEN
          /\ ~Attached(last.c)
  /\ \A c \in Conns :
       conn[c].code = CLOSE_FORBIDDEN
         => conn[c].st \in {"rejected", "closed"} /\ ~Attached(c)

\* C1 witness: a user whose membership was deactivated while another member
\* of the room is still active has just been refused.
C1_Witness ==
  /\ last.op = "connect"
  /\ last.code = CLOSE_FORBIDDEN
  /\ IsParticipant(last.u, last.r)
  /\ ~HasActiveMembership(last.u, last.r)
  /\ \E v \in Users : HasActiveMembership(v, last.r)

\* C2: a connection attempt refused with 4003, and the disconnect handling
\* that follows it, leave the channel groups, the liveness markers and the
\* rooms' online sets as they were and publish no event.
C2_RefusalMutatesNothing ==
  [][(last'.op \in {"connect", "disconnect"} /\ last'.code = CLOSE_FORBIDDEN)
       => /\ groups' = groups
          /\ userKey' = userKey
          /\ roomSet' = roomSet
          /\ roomExp' = roomExp
          /\ published' = <<>>]_vars

\* C3: a valid 'message' envelope with non-empty content from a joined
\* connection, whose insert does not fail, adds exactly one message row and
\* delivers exactly one 'message' frame carrying it to every connection
\* attached to the room's channel, the sender's included, and nothing to a
\* connection of another room.
C3_MessageFanout ==
  [][(/\ last'.op = "message"
      /\ last'.code # 2
      /\ ValidMessageFrame(last'.arg)
      /\ last'.arg.data.content # <<>>)
       => \E m \in msgs' :
            /\ m \notin msgs
            /\ msgs' = msgs \cup {m}
            /\ persisted' = <<m>>
            /\ m.room = last'.r /\ m.sender = last'.u
            /\ m.content = last'.arg.data.content
            /\ last'.c \in groups[get_room_channel_group(last'.r)]
            /\ \A c \in Conns :
                 /\ delivered'[c] =
                      IF c \in groups[get_room_channel_group(last'.r)]
                      THEN <<[type |-> "message",
                              data |-> serialize_message(m)]>>
                      ELSE <<>>
                 /\ conn[c].room # last'.r => delivered'[c] = <<>>]_vars

\* C3 witness: a message with non-empty content was sent while one connection
\* was attached to the sender's room and the other to another room.
C3_Witness ==
  /\ last.op = "message" /\ last.code = 0
  /\ last.arg.data.content # <<>>
  /\ \E c \in Conns :
       /\ c # last.c
       /\ conn[c].st = "open"
       /\ conn[c].room # last.r
       /\ delivered[c] = <<>>
  /\ delivered[last.c] # <<>>

\* The same with both connections attached to the sender's room: both got the
\* frame.
C3_WitnessShared ==
  /\ last.op = "message" /\ last.code = 0
  /\ \A c \in Conns : conn[c].st = "open" /\ conn[c].room = last.r
  /\ \A c \in Conns : Len(delivered[c]) = 1

\* C7: every message row is inserted for a sender who holds an active
\* membership in the message's room at that time.
C7_SenderIsActiveMember ==
  \A i \in 1..Len(persisted) :
    HasActiveMembership(persisted[i].sender, persisted[i].room)

\* C8: every text message has non-empty content after trimming; a 'message'
\* envelope whose content is empty or whitespace is answered with an error
\* frame to the sender only, persists nothing and broadcasts nothing.
C8_TextContentNonEmpty ==
  /\ \A m \in msgs : m.message_type = "text" => Strip(m.content) # <<>>
  /\ (last.op = "message" /\ ValidMessageFrame(last.arg)
        /\ Strip(last.arg.data.content) = <<>>)
       => /\ persisted = <<>>
          /\ published = <<>>
          /\ delivered[last.c] # <<>>
          /\ delivered[last.c][1].type = "error"

\* ========================================================= presence store
\* set_user_online(user_id, room_id); room_id = NoneId: no room given
SetOnline(u, r) ==
  /\ userKey' = OnlineUserKey(u)
  /\ roomSet' = OnlineRoomSet(u, r)
  /\ roomExp' = OnlineRoomExp(u, r)
  /\ lastOnline' = [lastOnline EXCEPT ![u] = now]
  /\ last' = Op("set_online", 0, u, r, 0, 0)
  /\ NoOutput
  /\ UNCHANGED <<task, storeVars, now, durableVars, gatewayVars>>

\* set_user_offline(user_id)
SetOffline(u) ==
  /\ userKey' = OfflineUserKey(u)
  /\ roomSet' = OfflineRoomSet(u)
  /\ roomExp' = OfflineRoomExp(u)
  /\ lastOnline' = [lastOnline EXCEPT ![u] = NoneTime]
  /\ last' = Op("set_offline", 0, u, 0, 0, 0)
  /\ NoOutput
  /\ UNCHANGED <<task, storeVars, now, durableVars, gatewayVars>>

\* The clock advances by step; Redis drops every key whose TTL has run out
\* (SETEX of the user key, EXPIRE of the room key).
TickBy(step, max) ==
  /\ now + step <= max
  /\ now' = now + step
  /\ userKey' = [u \in Users |->
                   IF userKey[u] # 0 /\ userKey[u] <= now + step
                   THEN 0 ELSE userKey[u]]
  /\ roomSet' = [r \in Rooms |->
                   IF roomExp[r] # 0 /\ roomExp[r] <= now + step
                   THEN {} ELSE roomSet[r]]
  /\ roomExp' = [r \in Rooms |->
                   IF roomExp[r] # 0 /\ roomExp[r] <= now + step
                   THEN 0 ELSE roomExp[r]]
  /\ last' = Op("tick", 0, 0, 0, 0, 0)
  /\ NoOutput
  /\ UNCHANGED <<task, storeVars, lastOnline, gatewayVars, durableVars>>

Tick == TickBy(TickStep, MaxTime)

NextPresence ==
  \/ \E u \in Users, r \in Rooms \cup {NoneId} : SetOnline(u, r)
  \/ \E u \in Users : SetOffline(u)
  \/ Tick

SpecPresence == Init /\ [][NextPresence]_vars

\* C9: after set_online(u, r), is_online(u) holds and u is in
\* online_users(r); after set_offline(u), is_online(u) is false and u is in
\* no room's online set.
C9_OnlineOffline ==
  /\ last.op = "set_online"
       => /\ is_user_online(last.u)
          /\ last.r \in Rooms => last.u \in get_online_users_in_room(last.r)
  /\ last.op = "set_offline"
       => /\ ~is_user_online(last.u)
          /\ \A r \in Rooms : last.u \notin get_online_users_in_room(r)

\* C9 witness: set_offline(u) has just run while another user is online and
\* some room's online set is not empty.
C9_Witness ==
  /\ last.op = "set_offline"
  /\ \E r \in Rooms : get_online_users_in_room(r) # {}
  /\ \E v \in Users : v # last.u /\ is_user_online(v)

\* C10: once 60 seconds have passed since u's last set_online with no
\* set_offline(u), is_online(u) is false and u is in no room's online set,
\* whatever set_online calls other users made for the room meanwhile.
C10_StalePresenceBounded ==
  \A u \in Users :
    (lastOnline[u] # NoneTime /\ now >= lastOnline[u] + PRESENCE_TTL)
      => /\ ~is_user_online(u)
         /\ \A r \in Rooms : u \notin get_online_users_in_room(r)

\* ==================================================== REST: message store
\* MessageViewSet.get_queryset: filter(room__participants=user,
\* room__memberships__is_active=True, room__is_active=True): the messages of
\* active rooms in which the user's own membership row is active.
MessageVisible(u, m) == HasActiveMembership(u, m.room) /\ roomActive[m.room]

\* The window test with the boundary excluded
WithinEditWindowStrict(m) == now - m.created_at < EDIT_WINDOW_MINUTES * 60

\* MessageViewSet.edit: timezone.now() - created_at > timedelta(minutes=15)
\* refuses the edit
WithinEditWindow(m) == ~(now - m.created_at > EDIT_WINDOW_MINUTES * 60)

\* MessageViewSet.soft_delete: RoomMembership.objects.filter(user, room,
\* role__in=["admin", "owner"], is_active=True).first()
IsRoomModerator(u, r) ==
  HasActiveMembership(u, r) /\ membership[<<u, r>>].role \in {"admin", "owner"}

\* serializer.save(**kwargs) of a partial MessageSerializer on m
PatchMessage(m, data) ==
  IF "content" \in DOMAIN data THEN [m EXCEPT !.content = data.content] ELSE m

\* Message.delete(): attachments cascade, replies keep their row with
\* reply_to set to NULL
DeleteMessages(gone) ==
  {IF m.reply_to \in {g.id : g \in gone} THEN [m EXCEPT !.reply_to = NoneId]
   ELSE m : m \in msgs \ gone}

DeleteAttachments(gone) ==
  {a \in attachments : a.message \notin {g.id : g \in gone}}

\* request bodies of a PATCH: a new content, or no content field at all
PatchData == {[content |-> <<"o", "k">>], [message_type |-> "text"]}

RestFrame ==
  /\ NoOutput
  /\ UNCHANGED <<task, presenceVars, gatewayVars, now, durableVars>>

\* MessageViewSet.edit
Edit(u, id, data) ==
  /\ IF ~(MsgExists(id) /\ MessageVisible(u, MsgById(id)))
     THEN /\ last' = OpArg("edit", 0, u, 0, id, 404, data)
          /\ UNCHANGED msgs
     ELSE LET m == MsgById(id)
          IN IF m.sender # u
             THEN /\ last' = OpArg("edit", 0, u, m.room, id, 403, data)
                  /\ UNCHANGED msgs
             ELSE IF ~WithinEditWindow(m)
             THEN /\ last' = OpArg("edit", 0, u, m.room, id, 403, data)
                  /\ UNCHANGED msgs
             ELSE /\ msgs' = (msgs \ {m}) \cup
                       {[PatchMessage(m, data) EXCEPT
                           !.is_edited = TRUE, !.edited_at = now]}
                  /\ last' = OpArg("edit", 0, u, m.room, id, 200, data)
  /\ RestFrame
  /\ UNCHANGED <<membership, roomActive, nextMsgId, attachments>>

\* UpdateModelMixin.update / partial_update, which MessageViewSet inherits
\* from BaseViewSet and the router exposes as PUT / PATCH messages/<id>/
Update(u, id, data) ==
  /\ IF ~(MsgExists(id) /\ MessageVisible(u, MsgById(id)))
     THEN /\ last' = OpArg("update", 0, u, 0, id, 404, data)
          /\ UNCHANGED msgs
     ELSE LET m == MsgById(id)
          IN /\ msgs' = (msgs \ {m}) \cup {PatchMessage(m, data)}
             /\ last' = OpArg("update", 0, u, m.room, id, 200, data)
  /\ RestFrame
  /\ UNCHANGED <<membership, roomActive, nextMsgId, attachments>>

\* DestroyModelMixin.destroy, inherited likewise: DELETE messages/<id>/
Destroy(u, id) ==
  /\ IF ~(MsgExists(id) /\ MessageVisible(u, MsgById(id)))
     THEN /\ last' = Op("destroy", 0, u, 0, id, 404)
          /\ UNCHANGED <<msgs, attachments>>
     ELSE LET m == MsgById(id)
          IN /\ msgs' = DeleteMessages({m})
             /\ attachments' = DeleteAttachments({m})
             /\ last' = Op("destroy", 0, u, m.room, id, 204)
  /\ RestFrame
  /\ UNCHANGED <<membership, roomActive, nextMsgId>>

\* MessageViewSet.soft_delete
SoftDelete(u, id) ==
  /\ IF ~(MsgExists(id) /\ MessageVisible(u, MsgById(id)))
     THEN /\ last' = Op("soft_delete", 0, u, 0, id, 404)
          /\ UNCHANGED <<msgs, attachments>>
     ELSE LET m == MsgById(id)
          IN IF m.sender # u /\ ~IsRoomModerator(u, m.room)
             THEN /\ last' = Op("soft_delete", 0, u, m.room, id, 403)
                  /\ UNCHANGED <<msgs, attachments>>
             ELSE /\ msgs' = DeleteMessages({m})
                  /\ attachments' = DeleteAttachments({m})
                  /\ last' = Op("soft_delete", 0, u, m.room, id, 200)
  /\ RestFrame
  /\ UNCHANGED <<membership, roomActive, nextMsgId>>

\* BaseModelViewSet.bulk_delete
BulkDelete(u, ids) ==
  /\ IF ids = {}
     THEN /\ last' = OpArg("bulk_delete", 0, u, 0, 0, 400, ids)
          /\ UNCHANGED <<msgs, attachments>>
     ELSE LET gone == {m \in msgs : m.id \in ids /\ MessageVisible(u, m)}
          IN /\ msgs' = DeleteMessages(gone)
             /\ attachments' = DeleteAttachments(gone)
             /\ last' = OpArg("bulk_delete", 0, u, 0, 0, 200, ids)
  /\ RestFrame
  /\ UNCHANGED <<membership, roomActive, nextMsgId>>

\* CreateModelMixin.create with MessageCreateSerializer and
\* MessageViewSet.perform_create.  room_id = NoneId: not given.  After the
\* checks, MessageCreateSerializer.create reads self.context["room_id"], a
\* key the view never sets: the request ends in a server error and no row.
Create(u, room_id, content) ==
  /\ last' = OpArg("create", 0, u, room_id, 0,
                   IF Strip(content) = <<>> THEN 400
                   ELSE IF room_id = NoneId THEN 400
                   ELSE IF room_id \notin Rooms THEN 404
                   ELSE IF ~IsParticipant(u, room_id) THEN 403
                   ELSE 500,
                   content)
  /\ RestFrame
  /\ UNCHANGED storeVars

\* upload_attachment.  file: "memory" (smaller than FILE_UPLOAD_MAX_MEMORY_SIZE:
\* validate_file calls temporary_file_path(), which an in-memory upload does
\* not have), "oversize" (refused by validate_file) or "ok".  message_id and
\* room_id: NoneId when not given.
UploadAttachment(u, file, message_id, room_id) ==
  /\ nextMsgId <= MaxMsgs + 1
  /\ IF file = "memory"
     THEN /\ last' = OpArg("upload", 0, u, room_id, message_id, 500, file)
          /\ persisted' = <<>>
          /\ UNCHANGED <<msgs, nextMsgId, attachments>>
     ELSE IF file = "oversize"
     THEN /\ last' = OpArg("upload", 0, u, room_id, message_id, 400, file)
          /\ persisted' = <<>>
          /\ UNCHANGED <<msgs, nextMsgId, attachments>>
     ELSE IF message_id # NoneId
     THEN IF ~MsgExists(message_id)
          THEN /\ last' = OpArg("upload", 0, u, room_id, message_id, 404, file)
               /\ persisted' = <<>>
               /\ UNCHANGED <<msgs, nextMsgId, attachments>>
          ELSE IF MsgById(message_id).sender # u
          THEN /\ last' = OpArg("upload", 0, u, room_id, message_id, 403, file)
               /\ persisted' = <<>>
               /\ UNCHANGED <<msgs, nextMsgId, attachments>>
          ELSE /\ attachments' = attachments \cup
                    {[message |-> message_id, filename |-> "f.zip",
                      file_type |-> "file"]}
               /\ last' = OpArg("upload", 0, u, room_id, message_id, 201, file)
               /\ persisted' = <<>>
               /\ UNCHANGED <<msgs, nextMsgId>>
     ELSE IF room_id \notin Rooms
     THEN \* NOT NULL / foreign key violation on room_id
          /\ last' = OpArg("upload", 0, u, room_id, message_id, 500, file)
          /\ persisted' = <<>>
          /\ UNCHANGED <<msgs, nextMsgId, attachments>>
     ELSE LET m == NewMessage(nextMsgId, room_id, u, <<>>, "attachment", NoneId)
          IN /\ msgs' = msgs \cup {m}
             /\ nextMsgId' = nextMsgId + 1
             /\ attachments' = attachments \cup
                  {[message |-> m.id, filename |-> "f.zip",
                    file_type |-> "file"]}
             /\ persisted' = <<m>>
             /\ last' = OpArg("upload", 0, u, room_id, m.id, 201, file)
  /\ delivered' = NoFrames
  /\ published' = <<>>
  /\ UNCHANGED <<task, membership, roomActive, presenceVars, gatewayVars, now, durableVars>>
  /\ Observe

\* ChatRoomViewSet.partial_update with is_active = false (ChatRoomDetailSerializer
\* leaves is_active writable); get_queryset shows only active rooms, so a room
\* is never re-activated this way
DeactivateRoom(u, r) ==
  /\ IF RoomVisible(u, r)
     THEN /\ roomActive' = [roomActive EXCEPT ![r] = FALSE]
          /\ last' = Op("room_update", 0, u, r, 0, 200)
     ELSE /\ UNCHANGED roomActive
          /\ last' = Op("room_update", 0, u, r, 0, 404)
  /\ RestFrame
  /\ UNCHANGED <<membership, msgs, nextMsgId, attachments>>

TickRest == TickBy(RestTickStep, MaxRestTime)

\* The store when the REST requests start: message 1 was sent at time 0 over
\* a socket, in room 1 by one of its two members or in room 2 by its owner;
\* the other participant of room 1 is a member or an admin.
InitRest ==
  /\ \E role \in {"member", "admin"} :
       membership = [InitMembership EXCEPT ![<<2, 1>>].role = role]
  /\ \E p \in {<<1, 1>>, <<2, 1>>, <<2, 2>>} :
       msgs = {[id |-> 1, room |-> p[2], sender |-> p[1],
                content |-> <<"h", "i">>,
                message_type |-> "text", is_edited |-> FALSE,
                edited_at |-> NoneTime, reply_to |-> NoneId, created_at |-> 0]}
  /\ roomActive = [r \in Rooms |-> TRUE]
  /\ nextMsgId = 2
  /\ attachments = {}
  /\ now = 0
  /\ notifications = {}
  /\ accounts = InitAccounts
  /\ task = NoTasks
  /\ userKey = [u \in Users |-> 0]
  /\ roomSet = [r \in Rooms |-> {}]
  /\ roomExp = [r \in Rooms |-> 0]
  /\ lastOnline = [u \in Users |-> NoneTime]
  /\ conn = [c \in Conns |-> NewConn]
  /\ groups = [g \in GroupNames |-> {}]
  /\ delivered = NoFrames
  /\ published = <<>>
  /\ persisted = <<>>
  /\ response = <<>>
  /\ inbox = NoInbox
  /\ last = Op("init", 0, 0, 0, 0, 0)

MsgIds == 1..(MaxMsgs + 1)

NextRest ==
  \/ \E u \in Users, id \in MsgIds, d \in PatchData : Edit(u, id, d)
  \/ \E u \in Users, id \in MsgIds, d \in PatchData : Update(u, id, d)
  \/ \E u \in Users, id \in MsgIds : Destroy(u, id)
  \/ \E u \in Users, id \in MsgIds : SoftDelete(u, id)
  \/ \E u \in Users, ids \in SUBSET MsgIds : BulkDelete(u, ids)
  \/ \E u \in Users, r \in Rooms : Leave(u, r)
  \/ \E u \in Users, r \in Rooms : Join(u, r)
  \/ \E u \in Users, r \in Rooms : DeactivateRoom(u, r)
  \/ TickRest

NextUpload ==
  \/ \E u \in Users, r \in Rooms \cup {NoneId}, t \in {<<>>, <<"h", "i">>} :
       Create(u, r, t)
  \/ \E u \in Users, f \in {"memory", "oversize", "ok"},
        id \in MsgIds \cup {NoneId}, r \in Rooms \cup {NoneId} :
       UploadAttachment(u, f, id, r)
  \/ \E u \in Users, r \in Rooms : Leave(u, r)
  \/ \E u \in Users, r \in Rooms : Join(u, r)

SpecRest == InitRest /\ [][NextRest]_vars

SpecUpload == InitRest /\ [][NextUpload]_vars

\* ======================================================= REST properties
EditWindowSeconds == EDIT_WINDOW_MINUTES * 60

\* C4: the content of a message is changed only by its sender and only
\* within the edit window, whatever operation on messages is used.
C4_ContentChangedOnlyBySenderInWindow ==
  [][\A m \in msgs : \A n \in msgs' :
       (n.id = m.id /\ n.content # m.content)
         => /\ last'.u = m.sender
            /\ now - m.created_at <= EditWindowSeconds]_vars

\* C5 as claimed: an edit by the sender at most 15 minutes after creation
\* succeeds and sets the edited flag and timestamp; an edit later than that,
\* or by another user, is refused (403, or 404 for a requester who cannot see
\* the message) and leaves the message as it was.
C5_EditBySenderInWindow ==
  [][(last'.op = "edit" /\ MsgExists(last'.m))
       => LET m == MsgById(last'.m)
          IN IF last'.u = m.sender /\ now - m.created_at <= EditWindowSeconds
             THEN /\ last'.code = 200
                  /\ \E n \in msgs' :
                       n.id = m.id /\ n.is_edited /\ n.edited_at = now
             ELSE /\ last'.code \in {403, 404}
                  /\ msgs' = msgs]_vars

\* C5 amended: an edit by the sender who still holds an active membership in
\* the message's active room, at most 15 minutes after creation, succeeds:
\* the edited flag is set, the edited timestamp is the time of the edit and
\* the content is the request's, the rest of the row and every other row
\* unchanged.  Any other edit (later than 15 minutes, by another user, by a
\* sender without that membership, of a message that does not exist) leaves
\* the store unchanged and is refused: 403 when the requester can see the
\* message, 404 otherwise.
C5_EditByVisibleSenderInWindow ==
  [][last'.op = "edit"
       => IF MsgExists(last'.m)
          THEN LET m == MsgById(last'.m)
                   seen == HasActiveMembership(last'.u, m.room)
                             /\ roomActive[m.room]
               IN IF /\ last'.u = m.sender
                     /\ seen
                     /\ now - m.created_at <= EditWindowSeconds
                  THEN /\ last'.code = 200
                       /\ msgs' = (msgs \ {m}) \cup
                            {[m EXCEPT
                                !.is_edited = TRUE,
                                !.edited_at = now,
                                !.content =
                                  IF "content" \in DOMAIN last'.arg
                                  THEN last'.arg.content ELSE m.content]}
                  ELSE /\ msgs' = msgs
                       /\ last'.code = IF seen THEN 403 ELSE 404
          ELSE msgs' = msgs /\ last'.code = 404]_vars

\* C5 witness: the sender's edit exactly 15 minutes after creation went
\* through.
C5_Witness ==
  /\ last.op = "edit" /\ last.code = 200
  /\ \E m \in msgs :
       /\ m.id = last.m /\ m.sender = last.u
       /\ m.is_edited /\ m.edited_at = now
       /\ now - m.created_at = EditWindowSeconds
       /\ m.content = <<"o", "k">>

\* A refused edit: after the window by the sender (403).
C5_WitnessLate ==
  /\ last.op = "edit" /\ last.code = 403
  /\ \E m \in msgs :
       m.id = last.m /\ m.sender = last.u
         /\ now - m.created_at > EditWindowSeconds

\* C6: a message is removed only by its sender or by an actor holding an
\* active admin or owner membership in its room, whatever delete path is
\* used.
C6_RemovedOnlyBySenderOrModerator ==
  [][\A m \in msgs :
       (~\E n \in msgs' : n.id = m.id)
         => \/ last'.u = m.sender
            \/ /\ HasActiveMembership(last'.u, m.room)
               /\ membership[<<last'.u, m.room>>].role \in {"admin", "owner"}]_vars

\* C11: sending 'leave' twice on one connection yields at most one user_left
\* broadcast for it: the first leave is acknowledged with a success frame and
\* closes the connection with code 1000; the second changes nothing and sends
\* nothing; user_left is published only by the one disconnect that closes the
\* connection, and a closed connection takes no further step.
C11_LeaveTwiceOneUserLeft ==
  [][/\ last'.op = "leave"
          => IF conn[last'.c].st = "open"
             THEN /\ delivered' = Reply(last'.c, SuccessFrame("Leaving room"))
                  /\ conn'[last'.c].st = "closing"
                  /\ conn'[last'.c].code = CLOSE_NORMAL
                  /\ published' = <<>>
             ELSE /\ delivered' = NoFrames
                  /\ published' = <<>>
                  /\ UNCHANGED <<conn, groups, presenceVars, storeVars>>
     /\ \A i \in 1..Len(published') :
          published'[i].event.type = "user_left"
            => /\ last'.op = "disconnect"
               /\ Len(published') = 1
               /\ published'[i].event.user_id = conn[last'.c].user
               /\ conn[last'.c].st # "closed"
               /\ conn'[last'.c].st = "closed"
     /\ \A c \in Conns : conn[c].st = "closed" => conn'[c] = conn[c]]_vars

\* C11 witness: the second 'leave' of a connection has just been handled,
\* while another connection is attached to the room.
C11_Witness ==
  /\ last.op = "leave"
  /\ conn[last.c].st = "closing"
  /\ delivered = NoFrames
  /\ \E d \in Conns \ {last.c} :
       d \in groups[get_room_channel_group(conn[last.c].room)]

\* ============================================================ room history
MaxHistory == 3
MaxStamp == 1

\* All the orders in which the rows of S can come back
RECURSIVE Perms(_)
Perms(S) ==
  IF S = {} THEN {<<>>}
  ELSE UNION {{<<m>> \o q : q \in Perms(S \ {m})} : m \in S}

\* queryset.order_by("created_at") / order_by("-created_at"): rows sorted on
\* that one column; the order of rows with equal created_at is the database's
\* choice
OrderByCreatedAt(S, descending) ==
  {q \in Perms(S) :
     \A i \in 1..Len(q), j \in 1..Len(q) :
       i < j => IF descending THEN q[i].created_at >= q[j].created_at
                ELSE q[i].created_at <= q[j].created_at}

\* MessageSerializer(rows, many=True).data
SerializeMany(q) == [i \in 1..Len(q) |-> serialize_message(q[i])]

\* the ordering query parameter of the room messages endpoint
OrderingParams == {"absent", "created_at", "-created_at"}

ReadFrame ==
  /\ delivered' = NoFrames
  /\ published' = <<>>
  /\ persisted' = <<>>
  /\ inbox' = inbox
  /\ UNCHANGED <<task, storeVars, presenceVars, gatewayVars, now, durableVars>>

\* ChatRoomViewSet.messages: the ordering parameter defaults to "-created_at"
RoomMessages(u, r, ordering) ==
  /\ IF ~RoomVisible(u, r)
     THEN /\ response' = <<>>
          /\ last' = OpArg("room_messages", 0, u, r, 0, 404, ordering)
     ELSE /\ \E q \in OrderByCreatedAt({m \in msgs : m.room = r},
                                        ordering \in {"absent", "-created_at"}) :
               response' = SerializeMany(q)
          /\ last' = OpArg("room_messages", 0, u, r, 0, 200, ordering)
  /\ ReadFrame

\* MessageViewSet.list: get_queryset() in the model's default ordering
\* (Message.Meta.ordering = ["created_at"])
ListMessages(u) ==
  /\ \E q \in OrderByCreatedAt({m \in msgs : MessageVisible(u, m)}, FALSE) :
       response' = SerializeMany(q)
  /\ last' = Op("list_messages", 0, u, 0, 0, 200)
  /\ ReadFrame

\* The store when the reads start: up to MaxHistory text messages, each sent
\* in some room by a member of it, with creation timestamps in any relation
\* to the identifiers.
InitHistory ==
  /\ membership = InitMembership
  /\ \E n \in 2..MaxHistory :
       \E ts \in [1..n -> 0..MaxStamp], rm \in [1..n -> Rooms] :
         msgs = {[id |-> i, room |-> rm[i],
                  sender |-> CHOOSE u \in Users : HasActiveMembership(u, rm[i]),
                  content |-> <<"h", "i">>, message_type |-> "text",
                  is_edited |-> FALSE, edited_at |-> NoneTime,
                  reply_to |-> NoneId, created_at |-> ts[i]] : i \in 1..n}
  /\ nextMsgId = MaxHistory + 1
  /\ roomActive = [r \in Rooms |-> TRUE]
  /\ attachments = {}
  /\ now = MaxStamp
  /\ notifications = {}
  /\ accounts = InitAccounts
  /\ task = NoTasks
  /\ userKey = [u \in Users |-> 0]
  /\ roomSet = [r \in Rooms |-> {}]
  /\ roomExp = [r \in Rooms |-> 0]
  /\ lastOnline = [u \in Users |-> NoneTime]
  /\ conn = [c \in Conns |-> NewConn]
  /\ groups = [g \in GroupNames |-> {}]
  /\ delivered = NoFrames
  /\ published = <<>>
  /\ persisted = <<>>
  /\ response = <<>>
  /\ inbox = NoInbox
  /\ last = Op("init", 0, 0, 0, 0, 0)

NextHistory ==
  \/ \E u \in Users, r \in Rooms, o \in OrderingParams : RoomMessages(u, r, o)
  \/ \E u \in Users : ListMessages(u)
  \/ \E u \in Users, r \in Rooms : Leave(u, r)
  \/ \E u \in Users, r \in Rooms : Join(u, r)

SpecHistory == InitHistory /\ [][NextHistory]_vars

\* C12: every read of a room's history returns the messages in
\* non-decreasing creation-timestamp order, equal timestamps in ascending
\* identifier order, whatever the order in which the rows were inserted.
C12_HistoryCanonicalOrder ==
  (last.op \in {"room_messages", "list_messages"} /\ last.code = 200)
    => \A i \in 1..Len(response), j \in 1..Len(response) :
         i < j => \/ response[i].created_at < response[j].created_at
                  \/ /\ response[i].created_at = response[j].created_at
                     /\ response[i].id < response[j].id

\* ================================================ notification connections
\* NotificationConsumer.connect behind JWTAuthMiddleware.  self.user is set
\* first, notification_group only for an authenticated user.
NotifyConnect(c, token) ==
  LET u == JWTAuthMiddleware(token)
  IN
  /\ conn[c].st = "new"
  /\ IF u = Anon
     THEN /\ conn' = [conn EXCEPT ![c] =
                 [st |-> "notify_rejected", user |-> u, room |-> 0,
                  code |-> CLOSE_UNAUTHORIZED]]
          /\ UNCHANGED groups
          /\ last' = OpArg("notify_connect", c, u, 0, 0, CLOSE_UNAUTHORIZED,
                           token)
     ELSE /\ conn' = [conn EXCEPT ![c] =
                 [st |-> "notify_open", user |-> u, room |-> 0, code |-> 0]]
          /\ groups' = [groups EXCEPT ![get_user_channel_group(u)] = @ \cup {c}]
          /\ last' = OpArg("notify_connect", c, u, 0, 0, 0, token)
  /\ NoOutput
  /\ accounts' = IF u = Anon THEN accounts ELSE set_online(u)
  /\ UNCHANGED <<task, storeVars, now, notifications, presenceVars>>

\* NotificationConsumer.disconnect
NotifyDisconnect(c) ==
  /\ conn[c].st \in {"notify_open", "notify_rejected"}
  /\ groups' = IF conn[c].user # Anon
               THEN [groups EXCEPT ![get_user_channel_group(conn[c].user)] =
                       @ \ {c}]
               ELSE groups
  /\ conn' = [conn EXCEPT ![c].st = "closed"]
  /\ last' = Op("notify_disconnect", c, conn[c].user, 0, 0, conn[c].code)
  /\ NoOutput
  /\ UNCHANGED <<task, storeVars, now, durableVars, presenceVars>>

NextAuth ==
  \/ \E c \in Conns, t \in Tokens, r \in Rooms : Connect(c, t, r)
  \/ \E c \in Conns : Disconnect(c)
  \/ \E c \in Conns, t \in Tokens : NotifyConnect(c, t)
  \/ \E c \in Conns : NotifyDisconnect(c)
  \/ \E c \in Conns, f \in TypingFrames : HandleTyping(c, f)
  \/ \E u \in Users, r \in Rooms : Leave(u, r)
  \/ \E u \in Users, r \in Rooms : Join(u, r)

SpecAuth == Init /\ [][NextAuth]_vars

\* The handshake's credential is missing or resolves to no user
NoUserFor(token) == token.kind # "jwt" \/ token.user_id \notin Users

\* C13: a connection attempt without a credential, or with one that resolves
\* to no user, is closed with 4001 on both consumers; it is never accepted,
\* never attached to a channel, and neither the attempt nor its disconnect
\* marks a user online or publishes an event.
C13_NoCredentialRefused ==
  [][/\ (last'.op \in {"connect", "notify_connect"} /\ NoUserFor(last'.arg))
          => /\ conn'[last'.c].code = CLOSE_UNAUTHORIZED
             /\ conn'[last'.c].st \in {"rejected", "notify_rejected"}
             /\ conn'[last'.c].user = Anon
             /\ UNCHANGED <<groups, userKey, roomSet, roomExp>>
             /\ delivered' = NoFrames /\ published' = <<>>
     /\ \A c \in Conns :
          conn'[c].code = CLOSE_UNAUTHORIZED
            => /\ conn'[c].st \notin {"open", "closing", "notify_open"}
               /\ \A g \in GroupNames : c \notin groups'[g]
     /\ (last'.op \in {"disconnect", "notify_disconnect"}
           /\ last'.code = CLOSE_UNAUTHORIZED)
          => /\ UNCHANGED <<groups, userKey, roomSet, roomExp>>
             /\ delivered' = NoFrames /\ published' = <<>>]_vars

\* C13 witness: a handshake carrying a well-formed token of a user whose row
\* is gone was refused with 4001 while a member is attached to a room.
C13_Witness ==
  /\ last.op \in {"connect", "notify_connect"}
  /\ last.arg = TokenOf(NumUsers + 1)
  /\ conn[last.c].code = CLOSE_UNAUTHORIZED
  /\ \E d \in Conns : conn[d].st = "open"

\* C14: when a joined connection of user u in room r disconnects, after a
\* close of the server's or without one, the connection is detached from r's
\* channel, exactly one user_left event naming u is published to r's channel
\* and delivered to every connection still attached (and to no other), and
\* is_online(u) is false.
C14_DisconnectAnnounced ==
  [][(last'.op = "disconnect" /\ conn[last'.c].st \in {"open", "closing"})
       => LET c == last'.c
              u == conn[c].user
              g == get_room_channel_group(conn[c].room)
              frame == [type |-> "user_left",
                        data |-> [user_id |-> u, username |-> Username(u)]]
          IN /\ c \notin groups'[g]
             /\ Len(published') = 1
             /\ published'[1].group = g
             /\ published'[1].event.type = "user_left"
             /\ published'[1].event.user_id = u
             /\ \A d \in Conns :
                  delivered'[d] = IF d \in groups'[g] THEN <<frame>> ELSE <<>>
             /\ userKey'[u] = 0]_vars

\* C14 witness: a joined connection went away without a close of the
\* server's, and a connection still attached was told.
C14_Witness ==
  /\ last.op = "disconnect" /\ last.code = 0
  /\ conn[last.c].st = "closed"
  /\ \E d \in Conns :
       /\ d \in groups[get_room_channel_group(last.r)]
       /\ delivered[d] # <<>>
       /\ delivered[d][1].type = "user_left"
       /\ delivered[d][1].data.user_id = last.u
  /\ ~is_user_online(last.u)

\* C16: presence is per user, not per connection: when a user holds two
\* joined connections and one of them disconnects, the user is marked fully
\* offline (no user key, in no room's online set) although the other
\* connection stays open and attached.
C16_PresencePerUser ==
  [][(last'.op = "disconnect" /\ conn[last'.c].st \in {"open", "closing"})
       => \A d \in Conns \ {last'.c} :
            (conn[d].st = "open" /\ conn[d].user = conn[last'.c].user)
              => /\ conn'[d].st = "open"
                 /\ d \in groups'[get_room_channel_group(conn[d].room)]
                 /\ ~is_user_online(conn[d].user)'
                 /\ \A r \in Rooms :
                      conn[d].user \notin get_online_users_in_room(r)']_vars

\* C16 witness: one of a user's two joined connections has disconnected and
\* the other is open and attached, with the user offline.
C16_Witness ==
  /\ last.op = "disconnect"
  /\ \E d \in Conns \ {last.c} :
       /\ conn[d].st = "open" /\ conn[d].user = last.u
       /\ d \in groups[get_room_channel_group(conn[d].room)]
  /\ ~is_user_online(last.u)
  /\ \A r \in Rooms : last.u \notin get_online_users_in_room(r)

\* ===================================================== end-to-end scenario
\* A private room (room 1) with its two participants; B holds connection 1,
\* joined and announced online; the frames each connection is sent are kept.
InitE2E ==
  /\ membership = InitMembership
  /\ msgs = {}
  /\ roomActive = [r \in Rooms |-> TRUE]
  /\ nextMsgId = 1
  /\ attachments = {}
  /\ now = 0
  /\ notifications = {}
  /\ accounts = InitAccounts
  /\ task = NoTasks
  /\ \E B \in {u \in Users : HasActiveMembership(u, 1)} :
       /\ conn = [c \in Conns |->
                    IF c = 1
                    THEN [st |-> "open", user |-> B, room |-> 1, code |-> 0]
                    ELSE NewConn]
       /\ userKey = [u \in Users |-> IF u = B THEN PRESENCE_TTL ELSE 0]
       /\ roomSet = [r \in Rooms |-> IF r = 1 THEN {ToStr(B)} ELSE {}]
       /\ lastOnline = [u \in Users |-> IF u = B THEN 0 ELSE NoneTime]
  /\ roomExp = [r \in Rooms |-> IF r = 1 THEN PRESENCE_TTL ELSE 0]
  /\ groups = [g \in GroupNames |->
                 IF g = get_room_channel_group(1) THEN {1} ELSE {}]
  /\ delivered = NoFrames
  /\ published = <<>>
  /\ persisted = <<>>
  /\ response = <<>>
  /\ inbox = [on |-> TRUE, log |-> NoFrames]
  /\ last = Op("init", 0, 0, 0, 0, 0)

NextE2E ==
  \/ \E c \in Conns, t \in Tokens, r \in Rooms : Connect(c, t, r)
  \/ \E c \in Conns, f \in {x \in MessageFrames : ValidMessageFrame(x)} :
       HandleMessage(c, f, FALSE)
  \/ \E c \in Conns : HandleLeave(c)
  \/ \E c \in Conns : Disconnect(c)

SpecE2E == InitE2E /\ [][NextE2E]_vars

\* The connection was accepted at the handshake
Accepted(c) ==
  conn[c].st \in {"open", "closing", "closed"}
    /\ conn[c].code \in {0, CLOSE_NORMAL}

\* The connection was accepted and has closed
Departed(c) == conn[c].st = "closed" /\ Accepted(c)

\* C15: in a private room with B connected throughout (connection 1, joined
\* since the start), once the one connection of the other participant A has
\* joined, sent 'message' envelopes and disconnected, B has received a user_left event naming A, and for each of
\* A's messages a 'message' event carrying its content and sender A, earlier
\* than that user_left.
C15_MessageThenUserLeft ==
  \A b \in {1}, a \in Conns :
    (/\ conn[b].st = "open" /\ Departed(a)
     /\ conn[a].room = conn[b].room /\ conn[a].user # conn[b].user
     /\ \A d \in Conns \ {a} : ~(Accepted(d) /\ conn[d].user = conn[a].user))
      => LET log == inbox.log[b]
             A == conn[a].user
         IN \E j \in 1..Len(log) :
              /\ log[j].type = "user_left"
              /\ log[j].data.user_id = A
              /\ \A m \in msgs :
                   (m.sender = A /\ m.room = conn[a].room)
                     => \E i \in 1..(j - 1) :
                          /\ log[i].type = "message"
                          /\ log[i].data.id = m.id
                          /\ log[i].data.content = m.content
                          /\ log[i].data.sender.id = A

\* C15 witness: A joined, sent "hi" and disconnected; B, still connected,
\* has been sent user_joined, the message and user_left.
C15_Witness ==
  /\ last.op = "disconnect"
  /\ Departed(last.c)
  /\ \E b \in Conns \ {last.c} :
       /\ conn[b].st = "open" /\ conn[b].room = last.r
       /\ conn[b].user # last.u
       /\ Len(inbox.log[b]) = 3
  /\ \E m \in msgs : m.sender = last.u /\ m.content = <<"h", "i">>

\* ===================================================== envelope properties
\* C17: a valid 'attachment' envelope (filename, file_url, file_type,
\* file_size) from a joined member persists one message of type attachment
\* with one attachment record holding that metadata, and broadcasts exactly
\* one 'attachment' event to the room's channel.
C17_AttachmentPersistedAndBroadcast ==
  [][(last'.op = "attachment" /\ ValidAttachmentFrame(last'.arg))
       => /\ Len(persisted') = 1
          /\ persisted'[1].message_type = "attachment"
          /\ msgs' = msgs \cup {persisted'[1]}
          /\ \E a \in attachments' \ attachments :
               /\ a.message = persisted'[1].id
               /\ a.filename = last'.arg.data.filename
               /\ a.file_type = last'.arg.data.file_type
          /\ Len(published') = 1
          /\ published'[1].group = get_room_channel_group(last'.r)
          /\ published'[1].event.type = "chat_attachment"]_vars

\* C18: a 'message' event is broadcast only once its record is persisted: a
\* published message event carries a row that is in the store; when
\* persisting fails nothing is stored or published, the sender alone is sent
\* an error envelope, and the connection stays open and attached.
C18_BroadcastAfterPersist ==
  [][last'.op = "message"
       => /\ \A i \in 1..Len(published') :
               published'[i].event.type = "chat_message"
                 => /\ Len(persisted') = 1
                    /\ persisted'[1] \in msgs'
                    /\ published'[i].event.message.id = persisted'[1].id
          /\ last'.code = 2
               => /\ published' = <<>>
                  /\ persisted' = <<>>
                  /\ msgs' = msgs
                  /\ \A d \in Conns :
                       delivered'[d] =
                         IF d = last'.c
                         THEN <<ErrorFrame("Failed to send message")>>
                         ELSE <<>>
                  /\ conn' = conn /\ conn[last'.c].st = "open"
                  /\ groups' = groups]_vars

\* C18 witness: the insert of a valid envelope failed while another
\* connection is attached to the sender's room.
C18_Witness ==
  /\ last.op = "message" /\ last.code = 2
  /\ conn[last.c].st = "open"
  /\ delivered[last.c] = <<ErrorFrame("Failed to send message")>>
  /\ \E d \in Conns \ {last.c} :
       d \in groups[get_room_channel_group(last.r)]

C20_MissingReplyDropped ==
  [][(/\ last'.op = "message" /\ last'.code # 2
      /\ ValidMessageFrame(last'.arg)
      /\ last'.arg.data.reply_to # NoneId
      /\ ~MsgExists(last'.arg.data.reply_to))
       => /\ last'.code = 0
          /\ Len(persisted') = 1
          /\ persisted'[1].reply_to = NoneId
          /\ persisted'[1].content = last'.arg.data.content
          /\ msgs' = msgs \cup {persisted'[1]}
          /\ Len(published') = 1
          /\ published'[1].event.type = "chat_message"
          /\ published'[1].event.message.id = persisted'[1].id
          /\ published'[1].event.message.reply_to = NoneId
          /\ \A d \in Conns : \A i \in 1..Len(delivered'[d]) :
               delivered'[d][i].type # "error"]_vars

\* C20 witness: a message replying to a message that does not exist was
\* stored without the reference and delivered to its sender.
C20_Witness ==
  /\ last.op = "message" /\ last.code = 0
  /\ last.arg.data.reply_to # NoneId
  /\ \E m \in msgs : m.id = last.m /\ m.reply_to = NoneId
  /\ delivered[last.c] # <<>>
  /\ delivered[last.c][1].type = "message"

\* C21: a valid 'typing' envelope broadcasts one typing event carrying the
\* sender's user id, username and the is_typing value (true when not given)
\* to the room's channel, and changes nothing durable: message store,
\* memberships and presence store are as before.
C21_TypingBroadcastOnly ==
  [][(last'.op = "typing" /\ ValidTypingFrame(last'.arg))
       => LET c == last'.c
              g == get_room_channel_group(conn[c].room)
              flag == IF "data" \in DOMAIN last'.arg
                        THEN last'.arg.data.is_typing ELSE TRUE
              ev == [type |-> "user_typing", user_id |-> conn[c].user,
                     username |-> Username(conn[c].user), is_typing |-> flag]
          IN /\ published' = <<[group |-> g, event |-> ev]>>
             /\ \A d \in Conns :
                  delivered'[d] =
                    IF d \in groups[g]
                    THEN <<[type |-> "typing", data |-> ev]>> ELSE <<>>
             /\ persisted' = <<>>
             /\ UNCHANGED <<storeVars, userKey, roomSet, roomExp, conn,
                            groups>>]_vars

\* C21 witness: a member signalled that typing stopped, and another
\* connection attached to the room was sent the event.
C21_Witness ==
  /\ last.op = "typing" /\ last.code = 0
  /\ "data" \in DOMAIN last.arg /\ last.arg.data.is_typing = FALSE
  /\ \E d \in Conns \ {last.c} :
       /\ delivered[d] # <<>>
       /\ delivered[d][1].type = "typing"
       /\ delivered[d][1].data.is_typing = FALSE
       /\ delivered[d][1].data.user_id = last.u

\* ------------------------------------------------- faults during connect
NextFault ==
  \/ \E c \in Conns, u \in Users, r \in Rooms : Connect(c, TokenOf(u), r)
  \/ \E c \in Conns, u \in Users, r \in Rooms, step \in FaultSteps :
       ConnectFault(c, TokenOf(u), r, step)
  \/ \E c \in Conns : Disconnect(c)
  \/ \E u \in Users, r \in Rooms : Leave(u, r)
  \/ \E u \in Users, r \in Rooms : Join(u, r)

SpecFault == Init /\ [][NextFault]_vars

\* C22: a fault in a step of connect closes the connection with code 4000,
\* and when the disconnect handling of that connection has run, the
\* connection is attached to no channel and its user is not marked online
\* (no user key, in no room's online set).
C22_ConnectFaultCleansUp ==
  [][/\ last'.op = "connect_fault"
          => /\ conn'[last'.c].code = CLOSE_FAULT
             /\ conn'[last'.c].st \in {"rejected", "closing"}
     /\ \A c \in Conns, u \in Users :
          (/\ last'.op = "disconnect" /\ last'.code = CLOSE_FAULT
           /\ last'.c = c /\ conn[c].user = u)
            => /\ conn'[c].st = "closed"
               /\ \A g \in GroupNames : c \notin groups'[g]
               /\ ~is_user_online(u)'
               /\ \A r \in Rooms : u \notin get_online_users_in_room(r)'
    ]_vars

\* C22 witness: a connection was attached, accepted and keyed online when
\* user_joined could not be published; it is closed with 4000 and still
\* attached, awaiting its disconnect handling.
C22_Witness ==
  /\ last.op = "connect_fault" /\ last.arg = "group_send"
  /\ conn[last.c].code = CLOSE_FAULT
  /\ last.c \in groups[get_room_channel_group(last.r)]
  /\ is_user_online(last.u)

\* C22 witness, second half: the disconnect handling of a connection closed
\* with 4000 has run and announced user_left to another connection.
C22_WitnessDisconnected ==
  /\ last.op = "disconnect" /\ last.code = CLOSE_FAULT
  /\ conn[last.c].st = "closed"
  /\ \E d \in Conns \ {last.c} : delivered[d] # <<>>

\* ============================================= delivery order on a channel
\* The channel layer queues each event on the channel of every attached
\* consumer; a consumer takes the events of its channel one at a time and
\* writes the frame to its socket.
MaxSent == 3

\* A consumer that takes the newest event of its channel
NextEventNewest(q) == Len(q)

\* The consumer's receive loop takes the oldest event of its channel
NextEvent(q) == 1

\* The consumer's event handler (chat_message, user_typing, ...) running for
\* the next event of connection d's channel
Deliver(d) ==
  /\ conn[d].st \in {"open", "closing"}
  /\ inbox.chan[d] # <<>>
  /\ LET q == inbox.chan[d]
         i == NextEvent(q)
     IN /\ inbox' = [inbox EXCEPT
                       !.log[d] = Append(@, q[i]),
                       !.chan[d] = SubSeq(q, 1, i - 1)
                                     \o SubSeq(q, i + 1, Len(q))]
        /\ delivered' = [c \in Conns |->
                           IF c = d THEN <<q[i].frame>> ELSE <<>>]
  /\ published' = <<>>
  /\ persisted' = <<>>
  /\ response' = <<>>
  /\ last' = Op("deliver", d, conn[d].user, conn[d].room, 0, 0)
  /\ UNCHANGED <<task, storeVars, now, durableVars, presenceVars, gatewayVars>>

\* Room 1 with its two participants; B holds connection 1; channels and the
\* published events are kept.
InitOrder ==
  /\ membership = InitMembership
  /\ msgs = {}
  /\ roomActive = [r \in Rooms |-> TRUE]
  /\ nextMsgId = 1
  /\ attachments = {}
  /\ now = 0
  /\ notifications = {}
  /\ accounts = InitAccounts
  /\ task = NoTasks
  /\ \E B \in {u \in Users : HasActiveMembership(u, 1)} :
       /\ conn = [c \in Conns |->
                    IF c = 1
                    THEN [st |-> "open", user |-> B, room |-> 1, code |-> 0]
                    ELSE NewConn]
       /\ userKey = [u \in Users |-> IF u = B THEN PRESENCE_TTL ELSE 0]
       /\ roomSet = [r \in Rooms |-> IF r = 1 THEN {ToStr(B)} ELSE {}]
       /\ lastOnline = [u \in Users |-> IF u = B THEN 0 ELSE NoneTime]
  /\ roomExp = [r \in Rooms |-> IF r = 1 THEN PRESENCE_TTL ELSE 0]
  /\ groups = [g \in GroupNames |->
                 IF g = get_room_channel_group(1) THEN {1} ELSE {}]
  /\ delivered = NoFrames
  /\ published = <<>>
  /\ persisted = <<>>
  /\ response = <<>>
  /\ inbox = [on |-> TRUE, log |-> NoFrames, chan |-> NoFrames, sent |-> <<>>]
  /\ last = Op("init", 0, 0, 0, 0, 0)

\* The handlers that publish run while fewer than MaxSent events were published
CanSend == Len(inbox.sent) < MaxSent

NextOrder ==
  \/ \E c \in Conns, u \in Users : CanSend /\ Connect(c, TokenOf(u), 1)
  \/ \E c \in Conns, f \in {x \in MessageFrames : ValidMessageFrame(x)} :
       CanSend /\ HandleMessage(c, f, FALSE)
  \/ \E c \in Conns, f \in {x \in TypingFrames : ValidTypingFrame(x)} :
       CanSend /\ HandleTyping(c, f)
  \/ \E c \in Conns : CanSend /\ Disconnect(c)
  \/ \E d \in Conns : Deliver(d)

SpecOrder == InitOrder /\ [][NextOrder]_vars

\* The frames connection d's socket was written that stem from connection c
ReceivedFrom(c, d) == SelectSeq(inbox.log[d], LAMBDA e : e.from = c)

\* The events connection c published while connection d was attached
PublishedTo(c, d) == SelectSeq(inbox.sent, LAMBDA e : e.from = c /\ d \in e.to)

\* C23: the events one connection publishes to the room channel reach every
\* attached connection in publish order: what a connection has received from
\* a sender is always the first part of what that sender published to it.
C23_PublishOrder ==
  \A c \in Conns, d \in Conns :
    /\ Len(ReceivedFrom(c, d)) <= Len(PublishedTo(c, d))
    /\ \A i \in 1..Len(ReceivedFrom(c, d)) :
         ReceivedFrom(c, d)[i].frame = PublishedTo(c, d)[i].frame

\* C23 witness: another connection has received two different events of one
\* sender's envelopes, after both were waiting on its channel together.
C23_Witness ==
  \E c \in Conns, d \in Conns :
    LET got == SelectSeq(ReceivedFrom(c, d),
                         LAMBDA e : e.frame.type \in {"message", "typing"})
    IN /\ c # d
       /\ Len(got) >= 2
       /\ got[1].frame # got[2].frame
       /\ last.op = "deliver" /\ last.c = d

\* ========================================================== notifications
MaxNotifs == 2
MaxReadTime == 2
ReadTickStep == 1

NotifIds == 1..MaxNotifs

\* Notification.objects.create: is_read defaults to False, read_at to null;
\* the BigAutoField gives the next id
NewNotification(rid) ==
  [id |-> Cardinality(notifications) + 1, recipient |-> rid,
   is_read |-> FALSE, read_at |-> NoneTime]

\* NotificationSerializer(notification).data (the recipient is not a field)
NotificationData(n) == [id |-> n.id, is_read |-> n.is_read, read_at |-> n.read_at]

\* send_notification_async(recipient_id, ...): a recipient_id that is no
\* user's violates the foreign key and nothing is stored or published
Notify(rid) ==
  /\ Cardinality(notifications) < MaxNotifs
  /\ IF rid \notin Users
     THEN /\ UNCHANGED notifications
          /\ published' = <<>>
          /\ delivered' = NoFrames
          /\ last' = Op("notify", 0, rid, 0, 0, 500)
     ELSE LET n == NewNotification(rid)
              g == get_user_channel_group(rid)
              ev == [type |-> "notification_message",
                     notification |-> NotificationData(n)]
          IN /\ notifications' = notifications \cup {n}
             /\ published' = <<[group |-> g, event |-> ev]>>
             /\ delivered' = GroupSend(groups, g, ev)
             /\ last' = Op("notify", 0, rid, 0, n.id, 0)
  /\ persisted' = <<>>
  /\ UNCHANGED <<task, storeVars, now, accounts, presenceVars, gatewayVars>>
  /\ Observe

\* A queryset that is every user's notifications
AllNotifications(u) == notifications

\* NotificationViewSet.get_queryset: the requester's own notifications
OwnNotifications(u) == {n \in notifications : n.recipient = u}

\* A mark_as_read that stamps the row every time
MarkAsReadAlways(n) == [n EXCEPT !.is_read = TRUE, !.read_at = now]

\* Notification.mark_as_read on row n: the row after it
mark_as_read(n) ==
  IF ~n.is_read THEN [n EXCEPT !.is_read = TRUE, !.read_at = now] ELSE n

\* Notification.mark_as_unread on row n
mark_as_unread(n) ==
  IF n.is_read THEN [n EXCEPT !.is_read = FALSE, !.read_at = NoneTime] ELSE n

\* A request of the notification endpoints: no socket frames, no chat rows
NotificationRequest ==
  /\ delivered' = NoFrames
  /\ published' = <<>>
  /\ persisted' = <<>>
  /\ response' = <<>>
  /\ inbox' = inbox
  /\ UNCHANGED <<task, storeVars, now, accounts, presenceVars, gatewayVars>>

\* NotificationViewSet.mark_read: get_object answers 404 for an id outside
\* the requester's queryset
MarkRead(u, id) ==
  /\ IF \E n \in OwnNotifications(u) : n.id = id
     THEN LET n == CHOOSE x \in OwnNotifications(u) : x.id = id
          IN /\ notifications' = (notifications \ {n}) \cup {mark_as_read(n)}
             /\ last' = Op("mark_read", 0, u, 0, id, 200)
     ELSE /\ UNCHANGED notifications
          /\ last' = Op("mark_read", 0, u, 0, id, 404)
  /\ NotificationRequest

\* NotificationViewSet.mark_unread
MarkUnread(u, id) ==
  /\ IF \E n \in OwnNotifications(u) : n.id = id
     THEN LET n == CHOOSE x \in OwnNotifications(u) : x.id = id
          IN /\ notifications' = (notifications \ {n}) \cup {mark_as_unread(n)}
             /\ last' = Op("mark_unread", 0, u, 0, id, 200)
     ELSE /\ UNCHANGED notifications
          /\ last' = Op("mark_unread", 0, u, 0, id, 404)
  /\ NotificationRequest

\* queryset.filter(is_read=False).update(is_read=True): read_at is not set
UpdateRead(qs) ==
  (notifications \ {n \in qs : ~n.is_read})
    \cup {[n EXCEPT !.is_read = TRUE] : n \in {x \in qs : ~x.is_read}}

\* NotificationViewSet.mark_all_read
MarkAllRead(u) ==
  /\ notifications' = UpdateRead(OwnNotifications(u))
  /\ last' = OpArg("mark_all_read", 0, u, 0, 0, 200, NotifIds)
  /\ NotificationRequest

\* NotificationViewSet.bulk_mark_read with notification_ids = ids
BulkMarkRead(u, ids) ==
  /\ notifications' = UpdateRead({n \in OwnNotifications(u) : n.id \in ids})
  /\ last' = OpArg("bulk_mark_read", 0, u, 0, 0, 200, ids)
  /\ NotificationRequest

TickRead ==
  /\ now + ReadTickStep <= MaxReadTime
  /\ now' = now + ReadTickStep
  /\ last' = Op("tick", 0, 0, 0, 0, 0)
  /\ NoOutput
  /\ UNCHANGED <<task, storeVars, presenceVars, gatewayVars, durableVars>>

NextNotify ==
  \/ \E c \in Conns, u \in Users : NotifyConnect(c, TokenOf(u))
  \/ \E c \in Conns : NotifyDisconnect(c)
  \/ \E c \in Conns, u \in Users : Connect(c, TokenOf(u), 1)
  \/ \E rid \in 1..(NumUsers + 1) : Notify(rid)

SpecNotify == Init /\ [][NextNotify]_vars

NextRead ==
  \/ \E rid \in Users : Notify(rid)
  \/ \E u \in Users, id \in NotifIds : MarkRead(u, id)
  \/ \E u \in Users, id \in NotifIds : MarkUnread(u, id)
  \/ \E u \in Users : MarkAllRead(u)
  \/ \E u \in Users, ids \in SUBSET NotifIds : BulkMarkRead(u, ids)
  \/ TickRead

SpecRead == Init /\ [][NextRead]_vars

\* C24: notify for recipient u stores exactly one notification row, for u,
\* and publishes one notification event to u's personal channel only: the
\* frame goes to every notification connection of u attached at that time,
\* and to no connection of another user and no room connection.
C24_NotifyOneRowOneChannel ==
  [][\A u \in Users :
       (last'.op = "notify" /\ last'.u = u)
         => \E n \in notifications' \ notifications :
              /\ notifications' = notifications \cup {n}
              /\ n.recipient = u /\ ~n.is_read
              /\ published' =
                   <<[group |-> <<"notifications_", u>>,
                      event |-> [type |-> "notification_message",
                                 notification |-> NotificationData(n)]]>>
              /\ \A d \in Conns :
                   delivered'[d] =
                     IF conn[d].st = "notify_open" /\ conn[d].user = u
                     THEN <<[type |-> "notification",
                             data |-> NotificationData(n)]>>
                     ELSE <<>>]_vars

\* C24 witness: a notification for a user reached that user's notification
\* connection while another user's notification connection was attached
\* and got nothing.
C24_Witness ==
  /\ last.op = "notify" /\ last.code = 0
  /\ \E d \in Conns :
       /\ conn[d].st = "notify_open" /\ conn[d].user = last.u
       /\ delivered[d] # <<>>
  /\ \E d \in Conns :
       /\ conn[d].st = "notify_open" /\ conn[d].user # last.u
       /\ delivered[d] = <<>>

\* C25: mark_read and mark_unread are idempotent: mark_read on a notification
\* that is already read changes neither its read flag nor its read
\* timestamp, mark_unread on an unread notification changes nothing, and the
\* same operation applied again right after itself changes nothing.
C25_MarkReadIdempotent ==
  [][\A u \in Users, id \in NotifIds :
       /\ (/\ last'.op = "mark_read" /\ last'.u = u /\ last'.m = id
           /\ \E n \in notifications :
                n.id = id /\ n.recipient = u /\ n.is_read)
            => notifications' = notifications
       /\ (/\ last'.op = "mark_unread" /\ last'.u = u /\ last'.m = id
           /\ \E n \in notifications :
                n.id = id /\ n.recipient = u /\ ~n.is_read)
            => notifications' = notifications
       /\ (/\ last'.op \in {"mark_read", "mark_unread"}
           /\ last'.op = last.op /\ last'.u = last.u /\ last'.m = last.m
           /\ last'.u = u /\ last'.m = id)
            => notifications' = notifications]_vars

\* C25 witness: mark_read has just run on a notification that was read at
\* an earlier time, and the earlier timestamp is still there.
C25_Witness ==
  /\ last.op = "mark_read" /\ last.code = 200
  /\ \E n \in notifications :
       /\ n.id = last.m /\ n.recipient = last.u
       /\ n.is_read /\ n.read_at # NoneTime /\ n.read_at < now

\* C26: bulk_mark_read and mark_all_read by user u change only notifications
\* whose recipient is u: every other recipient's notification is as it was,
\* also when its identifier is in the request.
C26_BulkReadOwnOnly ==
  [][\A u \in Users :
       (last'.op \in {"bulk_mark_read", "mark_all_read"} /\ last'.u = u)
         => {n \in notifications' : n.recipient # u}
              = {n \in notifications : n.recipient # u}]_vars

\* C26 witness: a bulk_mark_read named one of the requester's notifications
\* and one of another user's; the first is read, the second still unread.
C26_Witness ==
  /\ last.op = "bulk_mark_read"
  /\ \E n \in notifications :
       n.id \in last.arg /\ n.recipient # last.u /\ ~n.is_read
  /\ \E m \in notifications :
       m.id \in last.arg /\ m.recipient = last.u /\ m.is_read

\* ================================================================== rooms
\* The ChatRoom rows: room 1 is the private room of users 1 and 2, the other
\* rooms are named groups; room r was created by user r.
room_type(r) == IF r = 1 THEN "private" ELSE "group"
RoomName(r) == IF r = 1 THEN "" ELSE "group"
created_by(r) == r

\* Room r has its creator as owner and the next user (cyclically) as member
InitRoomMembership ==
  [p \in Users \X Rooms |->
     IF p[1] = p[2] THEN [role |-> "owner", is_active |-> TRUE]
     ELSE IF p[1] = (p[2] % NumUsers) + 1
          THEN [role |-> "member", is_active |-> TRUE]
     ELSE NoRow]

InitRooms ==
  /\ membership = InitRoomMembership
  /\ msgs = {}
  /\ InitCommon
  /\ last = Op("init", 0, 0, 0, 0, 0)

\* The bodies of POST /rooms/: room_type, name and participants (user ids,
\* NumUsers + 1 being no user's id)
RoomRequests ==
  [room_type : {"private", "group"}, name : {"", "n"},
   participants : {<<>>, <<1>>, <<2>>, <<NumUsers + 1>>, <<1, 2>>}]

\* ChatRoomCreateSerializer.validate
ValidRoomRequest(req) ==
  IF req.room_type = "private" THEN Len(req.participants) = 1
  ELSE req.name # "" /\ Len(req.participants) >= 1

\* ChatRoomViewSet.create with ChatRoomCreateSerializer: a request that fails
\* validate is answered 400.  For a valid one create() looks up the other
\* user when it has to derive a private room's name, then inserts the room
\* from name, room_type, description and avatar only: ChatRoom.save runs
\* full_clean, created_by (required) is not set, the ValidationError ends the
\* request, and no room and no membership is stored.
CreateRoom(u, req) ==
  /\ last' = OpArg("room_create", 0, u, 0, 0,
                   IF ValidRoomRequest(req) THEN 500 ELSE 400, req)
  /\ NoOutput
  /\ UNCHANGED <<task, storeVars, now, durableVars, presenceVars, gatewayVars>>

NextRooms ==
  \/ \E u \in Users, req \in RoomRequests : CreateRoom(u, req)
  \/ \E u \in Users, r \in Rooms : Join(u, r)
  \/ \E u \in Users, r \in Rooms : Leave(u, r)

SpecRooms == InitRooms /\ [][NextRooms]_vars

\* The users with an active membership in room r
ActiveParticipants(r) == {u \in Users : HasActiveMembership(u, r)}

\* C27: after any sequence of room creation, join and leave, every private
\* room has exactly 2 active participants, and every group room has a
\* non-empty name and a participant besides its creator.
C27_RoomShape ==
  \A r \in Rooms :
    /\ room_type(r) = "private" => Cardinality(ActiveParticipants(r)) = 2
    /\ room_type(r) = "group"
         => /\ RoomName(r) # ""
            /\ \E u \in Users \ {created_by(r)} : IsParticipant(u, r)

\* The RoomMembership rows
MembershipRows ==
  {[user |-> p[1], room |-> p[2], role |-> membership[p].role,
    is_active |-> membership[p].is_active] :
     p \in {q \in Users \X Rooms : membership[q] # NoRow}}

\* C28: after any sequence of room creation, join and leave (the owner
\* leaving and re-joining included), every room has at most one active
\* membership with role owner, and there is at most one membership row per
\* (user, room) pair.
C28_OneOwnerOneRow ==
  \A r \in Rooms :
    /\ Cardinality({m \in MembershipRows :
                      m.room = r /\ m.is_active /\ m.role = "owner"}) <= 1
    /\ \A u \in Users :
         Cardinality({m \in MembershipRows : m.room = r /\ m.user = u}) <= 1

\* C28 witness: the owner of a room, having left, has joined again and is
\* its active owner, next to an active member.
C28_Witness ==
  /\ last.op = "room_join" /\ last.code = 200 /\ last.arg.reactivated
  /\ membership[<<last.u, last.r>>] = [role |-> "owner", is_active |-> TRUE]
  /\ \E v \in Users \ {last.u} :
       membership[<<v, last.r>>] = [role |-> "member", is_active |-> TRUE]

\* =============================================== the durable online flag
\* The rooms of S in ascending id order
RoomSeq(S) ==
  [i \in 1..Cardinality(S) |->
     CHOOSE r \in S : Cardinality({q \in S : q < r}) = i - 1]

\* The user_presence_changed events of user u, one for each room in which u
\* has an active membership
PresenceEvents(u, instance) ==
  LET rs == RoomSeq({r \in Rooms : HasActiveMembership(u, r)})
  IN [i \in 1..Len(rs) |->
        [group |-> get_room_channel_group(rs[i]),
         event |-> [type |-> "user_presence_changed", user_id |-> u,
                    username |-> Username(u),
                    is_online |-> instance.is_online,
                    last_seen |-> instance.last_seen]]]

\* The frames connection c is sent for the published events evs
FramesFor(c, evs) ==
  LET idx == SelectSeq([i \in 1..Len(evs) |-> i],
                       LAMBDA i : c \in groups[evs[i].group])
  IN [j \in 1..Len(idx) |-> EventFrame(evs[idx[j]].event)]

\* The post_save receiver user_status_changed, run after the row was saved as
\* saved[u]: old_instance is read back from the table, which holds the saved
\* row, and is compared with the instance that was saved
user_status_changed(u, saved) ==
  LET instance == saved[u]
      old_instance == saved[u]
      status_changed == old_instance.is_online # instance.is_online
  IN IF status_changed THEN PresenceEvents(u, instance) ELSE <<>>

\* User.set_online() with its post_save receiver
UserSetOnline(u) ==
  /\ accounts' = set_online(u)
  /\ published' = user_status_changed(u, set_online(u))
  /\ delivered' = [c \in Conns |-> FramesFor(c, published')]
  /\ persisted' = <<>>
  /\ last' = OpArg("user_set_online", 0, u, 0, 0, 0, accounts[u])
  /\ UNCHANGED <<task, storeVars, now, notifications, presenceVars, gatewayVars>>
  /\ Observe

\* User.set_offline() with its post_save receiver
UserSetOffline(u) ==
  /\ accounts' = set_offline(u)
  /\ published' = user_status_changed(u, set_offline(u))
  /\ delivered' = [c \in Conns |-> FramesFor(c, published')]
  /\ persisted' = <<>>
  /\ last' = OpArg("user_set_offline", 0, u, 0, 0, 0, accounts[u])
  /\ UNCHANGED <<task, storeVars, now, notifications, presenceVars, gatewayVars>>
  /\ Observe

NextAccounts ==
  \/ \E u \in Users : UserSetOnline(u)
  \/ \E u \in Users : UserSetOffline(u)
  \/ \E c \in Conns, u \in Users : Connect(c, TokenOf(u), 1)
  \/ \E u \in Users, r \in Rooms : Leave(u, r)
  \/ \E u \in Users, r \in Rooms : Join(u, r)
  \/ TickRead

SpecAccounts == InitRooms /\ [][NextAccounts]_vars

\* C29: whatever the user's state, set_online leaves the durable online
\* flag true and last_seen empty, set_offline leaves the flag false and
\* last_seen set, and a newly created user has the flag false.
C29_DurableOnlineFlag ==
  /\ last.op = "user_set_online"
       => /\ accounts[last.u].is_online
          /\ accounts[last.u].last_seen = NoneTime
  /\ last.op = "user_set_offline"
       => /\ ~accounts[last.u].is_online
          /\ accounts[last.u].last_seen # NoneTime
  /\ last.op = "init" => \A u \in Users : ~accounts[u].is_online

\* C29 witness: set_online has run for a user who was offline with a
\* last_seen time from an earlier moment.
C29_Witness ==
  /\ last.op = "user_set_online"
  /\ ~last.arg.is_online /\ last.arg.last_seen # NoneTime
  /\ now > last.arg.last_seen
  /\ accounts[last.u].is_online

\* C30: whenever set_online or set_offline flips a user's durable online
\* flag, a user_presence_changed event with the new is_online value is
\* published to the channel of every room in which the user has an active
\* membership.
C30_PresenceChangeAnnounced ==
  [][\A u \in Users :
       (/\ last'.op \in {"user_set_online", "user_set_offline"}
        /\ last'.u = u
        /\ accounts'[u].is_online # accounts[u].is_online)
         => \A r \in Rooms :
              HasActiveMembership(u, r)
                => \E i \in 1..Len(published') :
                     /\ published'[i].group = get_room_channel_group(r)
                     /\ published'[i].event.type = "user_presence_changed"
                     /\ published'[i].event.user_id = u
                     /\ published'[i].event.is_online = accounts'[u].is_online
    ]_vars

\* ================================================ user_left without a join
\* C31: every user_left published to a room channel comes from the
\* disconnect of a connection that had published user_joined: the disconnect
\* of a connection closed with 4001, 4003 or 4000 publishes nothing.
C31_UserLeftOnlyAfterJoined ==
  (/\ last.op = "disconnect"
   /\ \E i \in 1..Len(published) : published[i].event.type = "user_left")
    => last.code \notin {CLOSE_UNAUTHORIZED, CLOSE_FORBIDDEN, CLOSE_FAULT}

\* ============================================ handle_message, step by step
\* handle_message awaits create_message, then serialize_message, then
\* group_send; between the awaits the handlers of other connections run.  A
\* consumer handles one frame at a time.  serialize_message and group_send
\* are taken as one step: no step below changes a stored row, so the
\* serialization is the same wherever it runs between the insert and the
\* group_send.
MaxConcMsgs == 2

\* handle_message up to the end of create_message
HandleMessageCreate(c, f) ==
  /\ conn[c].st = "open"
  /\ task[c] = NoTask
  /\ nextMsgId <= MaxConcMsgs
  /\ ValidMessageFrame(f)
  /\ LET u == conn[c].user
         r == conn[c].room
         m == create_message(nextMsgId, r, u, f.data.content, f.data.reply_to)
     IN /\ msgs' = msgs \cup {m}
        /\ nextMsgId' = nextMsgId + 1
        /\ task' = [task EXCEPT ![c] = m]
        /\ persisted' = <<m>>
        /\ last' = OpArg("message_create", c, u, r, m.id, 0, f)
  /\ published' = <<>>
  /\ delivered' = NoFrames
  /\ UNCHANGED <<membership, roomActive, attachments, now, durableVars,
                 presenceVars, gatewayVars>>
  /\ Observe

\* handle_message from serialize_message to the end of group_send
HandleMessageBroadcast(c) ==
  /\ conn[c].st = "open"
  /\ task[c] # NoTask
  /\ LET g == get_room_channel_group(conn[c].room)
         ev == [type |-> "chat_message",
                message |-> serialize_message(task[c])]
     IN /\ published' = <<[group |-> g, event |-> ev]>>
        /\ delivered' = GroupSend(groups, g, ev)
        /\ last' = Op("message_broadcast", c, conn[c].user, conn[c].room,
                      task[c].id, 0)
  /\ task' = [task EXCEPT ![c] = NoTask]
  /\ persisted' = <<>>
  /\ UNCHANGED <<storeVars, now, durableVars, presenceVars, gatewayVars>>
  /\ Observe

\* The initial rooms and memberships, with the frames sent to each
\* connection kept
InitConc ==
  /\ membership = InitMembership
  /\ msgs = {}
  /\ roomActive = [r \in Rooms |-> TRUE]
  /\ nextMsgId = 1
  /\ attachments = {}
  /\ now = 0
  /\ notifications = {}
  /\ accounts = InitAccounts
  /\ task = NoTasks
  /\ userKey = [u \in Users |-> 0]
  /\ roomSet = [r \in Rooms |-> {}]
  /\ roomExp = [r \in Rooms |-> 0]
  /\ lastOnline = [u \in Users |-> NoneTime]
  /\ conn = [c \in Conns |-> NewConn]
  /\ groups = [g \in GroupNames |-> {}]
  /\ delivered = NoFrames
  /\ published = <<>>
  /\ persisted = <<>>
  /\ response = <<>>
  /\ inbox = [on |-> TRUE, log |-> NoFrames]
  /\ last = Op("init", 0, 0, 0, 0, 0)

NextConc ==
  \/ \E c \in Conns, u \in Users, r \in Rooms : Connect(c, TokenOf(u), r)
  \/ \E c \in Conns, f \in MessageFrames : HandleMessageCreate(c, f)
  \/ \E c \in Conns : HandleMessageBroadcast(c)

SpecConc == InitConc /\ [][NextConc]_vars

\* The 'message' frames connection d was sent, in the order it got them
MessageFramesOf(d) == SelectSeq(inbox.log[d], LAMBDA fr : fr.type = "message")

\* C32: every connection is sent the 'message' events of its room in the
\* order in which the records were persisted: ascending identifier.
C32_LiveOrderIsPersistOrder ==
  \A d \in Conns :
    \A i \in 1..Len(MessageFramesOf(d)), j \in 1..Len(MessageFramesOf(d)) :
      i < j => MessageFramesOf(d)[i].data.id < MessageFramesOf(d)[j].data.id

\* ========================================= room events after a REST leave
\* The frames that carry a room event (the replies to the connection's own
\* envelopes are "success" and "error")
RoomEventTypes ==
  {"message", "attachment", "user_joined", "user_left", "typing",
   "user_presence_changed"}

\* C33: every connection attached to a room's channel belongs to a user
\* with an active membership in that room, and a room event is only sent to
\* connections of users whose membership in the room is active.
C33_AttachedOnlyActiveMembers ==
  /\ \A c \in Conns, r \in Rooms :
       c \in groups[get_room_channel_group(r)]
         => HasActiveMembership(conn[c].user, r)
  /\ \A c \in Conns :
       (\E i \in 1..Len(delivered[c]) : delivered[c][i].type \in RoomEventTypes)
         => HasActiveMembership(conn[c].user, conn[c].room)

\* ================================================== replies across rooms
\* C34: a stored message's reply_to names a message of the same room, and no
\* broadcast 'message' event carries the content of a message of another
\* room as its reply_to_content.
C34_ReplyWithinRoom ==
  /\ \A m \in msgs :
       (m.reply_to # NoneId /\ MsgExists(m.reply_to))
         => MsgById(m.reply_to).room = m.room
  /\ \A i \in 1..Len(published) :
       (/\ published[i].event.type = "chat_message"
        /\ published[i].event.message.reply_to_content # NoReply)
         => MsgById(published[i].event.message.reply_to).room
              = published[i].event.message.room

\* ============================================ read flag and read timestamp
\* C36: a notification is read if and only if its read timestamp is set.
C36_ReadFlagMatchesTimestamp ==
  \A n \in notifications : n.is_read <=> n.read_at # NoneTime

\* ================================================ failed attachment frames
\* C37: when an 'attachment' envelope is answered with an error, the envelope
\* has inserted no message and no attachment and nothing was broadcast.
C37_FailedAttachmentAtomic ==
  [][(/\ last'.op = "attachment"
      /\ \E i \in 1..Len(delivered'[last'.c]) :
           delivered'[last'.c][i].type = "error")
       => /\ msgs' = msgs
          /\ attachments' = attachments
          /\ persisted' = <<>>
          /\ published' = <<>>
    ]_vars

\* ============================================== faults during disconnect
\* The steps of ChatConsumer.disconnect that the channel layer can fail
DisconnectFaultSteps == {"group_discard", "group_send"}

\* ChatConsumer.disconnect when the named step raises: the steps are in one
\* try block, so what follows the failing step is skipped and the except
\* clause only logs
DisconnectFault(c, step) ==
  /\ conn[c].st \in {"open", "rejected", "closing"}
  /\ conn[c].user # Anon
  /\ LET g == get_room_channel_group(conn[c].room)
     IN groups' = IF step = "group_discard" THEN groups
                  ELSE GroupDiscard(groups, g, c)
  /\ conn' = [conn EXCEPT ![c].st = "closed"]
  /\ published' = <<>>
  /\ delivered' = NoFrames
  /\ persisted' = <<>>
  /\ last' = OpArg("disconnect_fault", c, conn[c].user, conn[c].room, 0,
                   conn[c].code, step)
  /\ UNCHANGED <<storeVars, now, durableVars, task, presenceVars>>
  /\ Observe

\* Connections that open, stay open while the clock advances, and close,
\* with or without a fault in the disconnect handling
NextLife ==
  \/ \E c \in Conns, u \in Users, r \in Rooms : Connect(c, TokenOf(u), r)
  \/ \E c \in Conns : Disconnect(c)
  \/ \E c \in Conns, step \in DisconnectFaultSteps : DisconnectFault(c, step)
  \/ Tick

SpecLife == Init /\ [][NextLife]_vars

\* C35: a connection of user u to room r that has joined finds u online
\* and in r's online set, and both stay so across every step in which the
\* connection stays open and no connection of u closes.
C35_JoinedStaysOnline ==
  [][\A c \in Conns, u \in Users, r \in Rooms :
       /\ (/\ last'.op = "connect" /\ last'.code = 0
           /\ last'.c = c /\ last'.u = u /\ last'.r = r)
            => /\ is_user_online(u)'
               /\ u \in get_online_users_in_room(r)'
       /\ (/\ conn[c] = [st |-> "open", user |-> u, room |-> r, code |-> 0]
           /\ conn'[c].st = "open"
           /\ is_user_online(u)
           /\ u \in get_online_users_in_room(r)
           /\ ~(last'.op \in {"disconnect", "disconnect_fault"} /\ last'.u = u))
            => /\ is_user_online(u)'
               /\ u \in get_online_users_in_room(r)'
    ]_vars

\* C38: when the disconnect handling of a user's connection has run with a
\* fault in group_discard or in group_send, the user is offline in the
\* presence store: no user key, in no room's online set.
C38_OfflineDespiteDisconnectFault ==
  last.op = "disconnect_fault"
    => /\ ~is_user_online(last.u)
       /\ \A r \in Rooms : last.u \notin get_online_users_in_room(r)

\* ===================================== the durable flag after the sockets
\* Sockets open and close; a session logout (user_logged_out) is the one
\* caller of User.set_offline.  The disconnect handling of a socket the
\* server has closed always runs; when a client closes an open socket, or
\* whether a user ever logs out, is up to the user.
NextGone ==
  \/ \E c \in Conns, u \in Users, r \in Rooms : Connect(c, TokenOf(u), r)
  \/ \E c \in Conns : Disconnect(c)
  \/ \E u \in Users : UserSetOffline(u)

SpecGone ==
  /\ Init
  /\ [][NextGone]_vars
  /\ WF_vars(\E c \in Conns : conn[c].st # "open" /\ Disconnect(c))

\* C39: once every connection that a user authenticated has disconnected
\* (there is one, and each is closed), the user's durable online flag is
\* eventually false.
C39_FlagClearedWhenGone ==
  \A u \in Users :
    (/\ \E c \in Conns : conn[c].user = u /\ conn[c].st = "closed"
     /\ \A c \in Conns : conn[c].user = u => conn[c].st = "closed")
      ~> ~accounts[u].is_online

====
